---- MODULE Spec2Model ----
(***************************************************************************)
(* A model of the Hnefatafl rules engine: the board model (board.ts), the  *)
(* hostility rule, capture resolver and status derivation (rules.ts), the  *)
(* reachability check (utils.ts), the move validator (validator.ts), the   *)
(* move generator (moveGenerator.ts) and the session object                *)
(* (HnefataflEngine.ts).                                                   *)
(*                                                                         *)
(* Coordinates are 0-based records [x, y] as in the source; a position is  *)
(* a function position[y][x] of squares.  Lists (expectedCaptures, the     *)
(* fingerprint history, the move history) are sequences, so that length    *)
(* and duplicates are those of the code.                                   *)
(***************************************************************************)
EXTENDS Integers, Sequences, FiniteSets, TLC

VARIABLES position, currentPlayer, captured, moveHistory, defenderPositions,
          status, escapePoints, result, held

vars == <<position, currentPlayer, captured, moveHistory, defenderPositions,
          status, escapePoints, result, held>>

(***************************************************************************)
(* Bounds of the model.                                                    *)
(***************************************************************************)
\* Longest move history explored (moves applied since reset).
MaxHistory == 3
\* Longest capture list a caller declares in a move string.
MaxDeclared == 2
\* Most validateMove calls explored in a row, between two calls of applyMove.
MaxValidations == 1
\* Longest move list given to applyMoveSequence.
MaxParts == 2
\* Most calls explored in a row that leave the GameState as it was, when a
\* caller submits any move string: validateMove calls and refused calls.
MaxRefused == 1

(***************************************************************************)
(* types.ts                                                                *)
(***************************************************************************)
Attacker == "attacker"
Defender == "defender"
King == "king"
Player == {Attacker, Defender}

InProgress == "in_progress"
AttackerWin == "attacker_win"
DefenderWin == "defender_win"

\* occupant: null
NoPiece == [owner |-> "none", type |-> "none"]
AttackerPiece == [owner |-> Attacker, type |-> Attacker]
DefenderPiece == [owner |-> Defender, type |-> Defender]
KingPiece == [owner |-> Defender, type |-> King]

Coord(x, y) == [x |-> x, y |-> y]

Size(pos) == Cardinality(DOMAIN pos)

InBoard(pos, x, y) == x >= 0 /\ y >= 0 /\ x < Size(pos) /\ y < Size(pos)

AllCoords(pos) == {Coord(x, y) : x \in 0 .. Size(pos) - 1, y \in 0 .. Size(pos) - 1}

Range(s) == {s[i] : i \in 1 .. Len(s)}

\* The element of a one-element set.  A value that an operator uses many times
\* is bound by a set constructor, Only({e(v) : v \in {value}}), so that it is
\* computed once, as the code computes a local constant once.
Only(S) == CHOOSE r \in S : TRUE

(***************************************************************************)
(* utils.ts: coordinate notation.  A coordinate string is a file letter    *)
(* A..K (kept as its index 0..10) and a rank number 1..11.                 *)
(***************************************************************************)
BoardRanks == 11

CoordStr(file, rank) == [file |-> file, rank |-> rank]

coordFromString(s) == Coord(s.file, BoardRanks - s.rank)

coordToString(c) == CoordStr(c.x, BoardRanks - c.y)

(***************************************************************************)
(* parser.ts: a move string "<from>-<to>" or "<from>-<to>(<captures>)".    *)
(* A well-formed move string is kept as its three parts; BadFormat stands  *)
(* for any string the pattern does not match.                              *)
(***************************************************************************)
MoveStr(from, to, caps) == [from |-> from, to |-> to, caps |-> caps, paren |-> Len(caps) > 0]

BadFormat == [from |-> CoordStr(-1, -1), to |-> CoordStr(-1, -1), caps |-> <<>>, paren |-> FALSE]

NoMove == [from |-> Coord(-1, -1), to |-> Coord(-1, -1), captures |-> <<>>]

\* parseMove: null (NoMove) when the pattern does not match
parseMove(ms) ==
    IF ms = BadFormat THEN NoMove
    ELSE [from |-> coordFromString(ms.from),
          to |-> coordFromString(ms.to),
          captures |-> [i \in 1 .. Len(ms.caps) |-> coordFromString(ms.caps[i])]]

(***************************************************************************)
(* board.ts                                                                *)
(***************************************************************************)
\* the default character mapping of transformLayoutToPosition
CharSquare(c) ==
    CASE c = "A" -> [occupant |-> AttackerPiece, isThrone |-> FALSE, isRestricted |-> FALSE]
      [] c = "a" -> [occupant |-> AttackerPiece, isThrone |-> FALSE, isRestricted |-> FALSE]
      [] c = "D" -> [occupant |-> DefenderPiece, isThrone |-> FALSE, isRestricted |-> FALSE]
      [] c = "d" -> [occupant |-> DefenderPiece, isThrone |-> FALSE, isRestricted |-> FALSE]
      [] c = "K" -> [occupant |-> KingPiece, isThrone |-> TRUE, isRestricted |-> TRUE]
      [] c = "R" -> [occupant |-> NoPiece, isThrone |-> FALSE, isRestricted |-> TRUE]
      [] OTHER -> [occupant |-> NoPiece, isThrone |-> FALSE, isRestricted |-> FALSE]

\* A layout is a sequence of rows, each a sequence of one-character strings.
LayoutWellFormed(layout) ==
    /\ Len(layout) # 0
    /\ \A i \in 1 .. Len(layout) : Len(layout[i]) = Len(layout)

extractEscapePoints(pos) ==
    {c \in AllCoords(pos) :
        \/ c.x = 0 \/ c.x = Size(pos) - 1 \/ c.y = 0 \/ c.y = Size(pos) - 1
        \/ (pos[c.y][c.x].isRestricted /\ ~pos[c.y][c.x].isThrone)}

transformLayoutToPosition(layout) ==
    LET pos == [y \in 0 .. Len(layout) - 1 |->
                   [x \in 0 .. Len(layout) - 1 |-> CharSquare(layout[y + 1][x + 1])]]
    IN [position |-> pos, escapePoints |-> extractEscapePoints(pos)]

KingCount(layout) ==
    Cardinality({<<i, j>> \in (1 .. Len(layout)) \X (1 .. Len(layout)) :
                    j <= Len(layout[i]) /\ layout[i][j] = "K"})

\* an initializeGame that counts no kings
initializeGameUnchecked(layout) == ~LayoutWellFormed(layout)

\* initializeGame throws unless exactly one 'K' is in the layout
initializeGameThrows(layout) == KingCount(layout) # 1 \/ ~LayoutWellFormed(layout)

initializeGame(layout) == transformLayoutToPosition(layout)

clonePosition(pos) ==
    [y \in DOMAIN pos |-> [x \in DOMAIN pos[y] |->
        [occupant |-> pos[y][x].occupant,
         isThrone |-> pos[y][x].isThrone,
         isRestricted |-> pos[y][x].isRestricted]]]

\* a fingerprint character that marks the King as a Defender
FingerprintCharSame(occ) ==
    IF occ # NoPiece /\ occ.type \in {Defender, King} THEN "D" ELSE " "

\* extractDefenderPosition(position, move): one row string per rank
FingerprintChar(occ) ==
    IF occ # NoPiece /\ occ.type = Defender THEN "D"
    ELSE IF occ # NoPiece /\ occ.type = King THEN "K"
    ELSE " "

extractDefenderPosition(pos, move) ==
    [r \in 1 .. Size(pos) |->
        [k \in 1 .. Size(pos) |->
            LET x == k - 1
                y == r - 1
                occ0 == pos[y][x].occupant
                occ1 == IF move # NoMove /\ x = move.from.x /\ y = move.from.y
                        THEN NoPiece ELSE occ0
                occ2 == IF move # NoMove /\ x = move.to.x /\ y = move.to.y
                        THEN pos[move.from.y][move.from.x].occupant ELSE occ1
            IN FingerprintChar(occ2)]]

SetOccupant(pos, x, y, occ) == [pos EXCEPT ![y][x].occupant = occ]

RECURSIVE ClearAll(_, _, _)
ClearAll(pos, caps, i) ==
    IF i > Len(caps) THEN pos
    ELSE ClearAll(SetOccupant(pos, caps[i].x, caps[i].y, NoPiece), caps, i + 1)

\* a move that leaves a copy of the moved piece on its origin
applyMoveToPositionCopying(pos, move, applyCaptures) ==
    LET next0 == clonePosition(pos)
        moving == next0[move.from.y][move.from.x].occupant
        next2 == SetOccupant(next0, move.to.x, move.to.y, moving)
    IN IF applyCaptures THEN ClearAll(next2, move.captures, 1) ELSE next2

applyMoveToPosition(pos, move, applyCaptures) ==
    LET next0 == clonePosition(pos)
        moving == next0[move.from.y][move.from.x].occupant
        next1 == SetOccupant(next0, move.from.x, move.from.y, NoPiece)
        next2 == SetOccupant(next1, move.to.x, move.to.y, moving)
    IN IF applyCaptures THEN ClearAll(next2, move.captures, 1) ELSE next2

(***************************************************************************)
(* rules.ts: hostility and captures                                        *)
(***************************************************************************)
\* a restricted square is hostile to both sides, whoever stands on it
isSquareHostileToRestrictedAlways(square, owner, occupant) ==
    IF square.isRestricted THEN TRUE
    ELSE IF occupant # NoPiece THEN occupant.owner # owner
    ELSE FALSE

isSquareHostileTo(square, owner, occupant) ==
    IF square.isRestricted
    THEN IF square.isThrone /\ occupant # NoPiece /\ occupant.type = King
         THEN owner = Attacker
         ELSE TRUE
    ELSE IF occupant # NoPiece THEN occupant.owner # owner
    ELSE FALSE

\* getAvailableCaptures.getOccupantAfter: the occupant as if the move were applied
getOccupantAfter(pos, move, x, y) ==
    IF x = move.from.x /\ y = move.from.y THEN NoPiece
    ELSE IF x = move.to.x /\ y = move.to.y THEN pos[move.from.y][move.from.x].occupant
    ELSE pos[y][x].occupant

\* hostility by the occupant alone, forgetting the restricted squares
isHostileToOccupantOnly(pos, move, owner, x, y) ==
    IF ~InBoard(pos, x, y) THEN FALSE
    ELSE LET occ == getOccupantAfter(pos, move, x, y)
         IN occ # NoPiece /\ occ.owner # owner

\* getAvailableCaptures.isHostileTo: hostility after the move
isHostileTo(pos, move, owner, x, y) ==
    IF ~InBoard(pos, x, y) THEN FALSE
    ELSE isSquareHostileTo(pos[y][x], owner, getOccupantAfter(pos, move, x, y))

\* getEdgeEnclosureCaptures.isHostileToBefore: hostility before the move
isHostileToBefore(pos, owner, x, y) ==
    IF ~InBoard(pos, x, y) THEN FALSE
    ELSE isSquareHostileTo(pos[y][x], owner, pos[y][x].occupant)

\* the direction list of getStandardCaptures and isKingCapturable
directions == <<[dx |-> 0, dy |-> -1], [dx |-> 0, dy |-> 1],
                [dx |-> -1, dy |-> 0], [dx |-> 1, dy |-> 0]>>

\* the King taken when three of its neighbours are hostile
isKingCapturableByThree(x, y, pos, move) ==
    /\ \A i \in 1 .. 4 : InBoard(pos, x + directions[i].dx, y + directions[i].dy)
    /\ Cardinality({i \in 1 .. 4 :
            LET nx == x + directions[i].dx
                ny == y + directions[i].dy
                cell == pos[ny][nx]
                occ == getOccupantAfter(pos, move, nx, ny)
            IN cell.isThrone \/ cell.isRestricted
               \/ (occ # NoPiece /\ occ.owner = Attacker)}) >= 3

isKingCapturable(x, y, pos, move) ==
    /\ \A i \in 1 .. 4 : InBoard(pos, x + directions[i].dx, y + directions[i].dy)
    /\ Cardinality({i \in 1 .. 4 :
            LET nx == x + directions[i].dx
                ny == y + directions[i].dy
                cell == pos[ny][nx]
                occ == getOccupantAfter(pos, move, nx, ny)
            IN cell.isThrone \/ cell.isRestricted
               \/ (occ # NoPiece /\ occ.owner = Attacker)}) >= 4

\* every piece type, the mover's own included
opponentTypesAll(player) == {Attacker, Defender, King}

opponentTypes(player) == IF player = Attacker THEN {Defender, King} ELSE {Attacker}

\* One direction of the loop of getStandardCaptures: the captures it pushes.
StandardCaptureIn(pos, move, player, d) ==
    LET midX == move.to.x + d.dx
        midY == move.to.y + d.dy
        beyondX == move.to.x + d.dx * 2
        beyondY == move.to.y + d.dy * 2
    IN IF ~InBoard(pos, midX, midY) \/ ~InBoard(pos, beyondX, beyondY) THEN <<>>
       ELSE LET midOccupant == getOccupantAfter(pos, move, midX, midY)
            IN IF midOccupant # NoPiece /\ midOccupant.type = King /\ player = Attacker
               THEN IF isKingCapturable(midX, midY, pos, move)
                    THEN <<Coord(midX, midY)>> ELSE <<>>
               ELSE IF midOccupant # NoPiece /\ midOccupant.type \in opponentTypes(player)
               THEN IF isHostileTo(pos, move, midOccupant.owner, beyondX, beyondY)
                    THEN <<Coord(midX, midY)>> ELSE <<>>
               ELSE <<>>

getStandardCaptures(pos, move, player) ==
    StandardCaptureIn(pos, move, player, directions[1])
    \o StandardCaptureIn(pos, move, player, directions[2])
    \o StandardCaptureIn(pos, move, player, directions[3])
    \o StandardCaptureIn(pos, move, player, directions[4])

Opponent(player) == IF player = Attacker THEN Defender ELSE Attacker

\* The edge squares of row k (byRow) or column k, as scanLine sorts them:
\* coords.sort((a, b) => a.x - b.x || a.y - b.y), by x along a row and by y
\* along a column.
CoordBefore(a, b) == a.x < b.x \/ (a.x = b.x /\ a.y <= b.y)

LineCoords(pos, edgeSquares, byRow, k) ==
    LET all == [i \in 1 .. Size(pos) |-> IF byRow THEN Coord(i - 1, k) ELSE Coord(k, i - 1)]
    IN SelectSeq(all, LAMBDA c : c \in edgeSquares)

\* scanLine.isOpponentAt
isOpponentAt(pos, move, opponentOwner, c) ==
    LET occ == getOccupantAfter(pos, move, c.x, c.y)
    IN occ # NoPiece /\ occ.owner = opponentOwner /\ occ.type # King

\* the getInward arguments of the two scanLine loops
InwardOfRow(pos, c) == Coord(c.x, IF c.y = 0 THEN 1 ELSE Size(pos) - 2)
InwardOfCol(pos, c) == Coord(IF c.x = 0 THEN 1 ELSE Size(pos) - 2, c.y)
getInward(pos, byRow, c) == IF byRow THEN InwardOfRow(pos, c) ELSE InwardOfCol(pos, c)

\* scanLine.isNewlyEnclosed for the segment coords[start..end] (1-based here)
isNewlyEnclosed(pos, move, opponentOwner, coords, byRow, start, end) ==
    LET adjSquares == {getInward(pos, byRow, coords[i]) : i \in start .. end}
                      \cup (IF start > 1 THEN {coords[start - 1]} ELSE {})
                      \cup (IF end < Len(coords) THEN {coords[end + 1]} ELSE {})
        enclosedAfter == \A a \in adjSquares : isHostileTo(pos, move, opponentOwner, a.x, a.y)
        enclosedBefore == \A a \in adjSquares : isHostileToBefore(pos, opponentOwner, a.x, a.y)
    IN enclosedAfter /\ ~enclosedBefore

\* scanLine: the segments of one line that are pushed to captures
scanLine(pos, move, opponentOwner, coords, byRow) ==
    LET n == Len(coords)
        opp(i) == isOpponentAt(pos, move, opponentOwner, coords[i])
        \* the last index of the opponent segment that starts at i
        segEnd[i \in 1 .. n] == IF i < n /\ opp(i + 1) THEN segEnd[i + 1] ELSE i
        scan[i \in 1 .. n + 1] ==
            IF i > n THEN <<>>
            ELSE IF ~opp(i) THEN scan[i + 1]
            ELSE LET end == segEnd[i]
                 IN (IF isNewlyEnclosed(pos, move, opponentOwner, coords, byRow, i, end)
                     THEN SubSeq(coords, i, end) ELSE <<>>)
                    \o scan[end + 1]
    IN scan[1]

RECURSIVE ScanLines(_, _, _, _, _, _)
ScanLines(pos, move, opponentOwner, edgeSquares, byRow, k) ==
    IF k >= Size(pos) THEN <<>>
    ELSE Only({scanLine(pos, move, opponentOwner, coords, byRow)
               : coords \in {LineCoords(pos, edgeSquares, byRow, k)}})
         \o ScanLines(pos, move, opponentOwner, edgeSquares, byRow, k + 1)

getEdgeEnclosureCaptures(pos, move, player, edgeSquares) ==
    ScanLines(pos, move, Opponent(player), edgeSquares, TRUE, 0)
    \o ScanLines(pos, move, Opponent(player), edgeSquares, FALSE, 0)

getAvailableCaptures(pos, move, player, edgeSquares) ==
    getStandardCaptures(pos, move, player)
    \o getEdgeEnclosureCaptures(pos, move, player, edgeSquares)

isKingCaptured(pos) ==
    ~\E c \in AllCoords(pos) :
        pos[c.y][c.x].occupant # NoPiece /\ pos[c.y][c.x].occupant.type = King

(***************************************************************************)
(* rules.ts: the fort detector                                             *)
(***************************************************************************)
\* the direction list `dirs` of the fort helpers
dirs == <<[dx |-> 1, dy |-> 0], [dx |-> -1, dy |-> 0],
          [dx |-> 0, dy |-> 1], [dx |-> 0, dy |-> -1]>>

Neighbours(pos, c) ==
    {Coord(c.x + dirs[i].dx, c.y + dirs[i].dy) : i \in 1 .. 4}
    \cap AllCoords(pos)

isEdgeSquare(pos, x, y) ==
    \/ x = 0 \/ y = 0 \/ x = Size(pos) - 1 \/ y = Size(pos) - 1
    \/ (pos[y][x].isRestricted /\ ~pos[y][x].isThrone)

\* The breadth-first search of getAttackerReachable: the squares it marks
\* visited, from the squares `seen` marked so far.
RECURSIVE AttackerVisited(_, _)
AttackerVisited(pos, seen) ==
    Only({LET new == {n \in UNION {Neighbours(pos, c) : c \in visited} :
                        /\ n \notin visited
                        /\ ~(pos[n.y][n.x].occupant # NoPiece
                             /\ pos[n.y][n.x].occupant.owner = Defender)
                        /\ ~(pos[n.y][n.x].occupant # NoPiece
                             /\ pos[n.y][n.x].occupant.type = King)}
          IN IF new = {} THEN visited ELSE AttackerVisited(pos, visited \cup new)
          : visited \in {seen}})

getAttackerReachable(pos) ==
    LET start == {c \in AllCoords(pos) :
                    pos[c.y][c.x].occupant # NoPiece
                    /\ pos[c.y][c.x].occupant.owner = Attacker}
    IN {c \in AttackerVisited(pos, start) : ~pos[c.y][c.x].isRestricted}

attackerCanOccupy(reachable, pos, x, y) ==
    IF ~InBoard(pos, x, y) THEN FALSE
    ELSE IF pos[y][x].isRestricted THEN FALSE
    ELSE Coord(x, y) \in reachable

isHostileToDefender(pos, x, y) ==
    IF ~InBoard(pos, x, y) THEN TRUE
    ELSE IF pos[y][x].isRestricted THEN TRUE
    ELSE pos[y][x].occupant # NoPiece /\ pos[y][x].occupant.owner = Attacker

\* One pair of opposite neighbours in isDefenderCapturable.
DefenderCapturableAlong(pos, c, reachable, a, b) ==
    LET nx1 == c.x + a.dx
        ny1 == c.y + a.dy
        nx2 == c.x + b.dx
        ny2 == c.y + b.dy
        edge1 == ~InBoard(pos, nx1, ny1) \/ pos[ny1][nx1].isRestricted
        edge2 == ~InBoard(pos, nx2, ny2) \/ pos[ny2][nx2].isRestricted
        attack1 == attackerCanOccupy(reachable, pos, nx1, ny1)
        attack2 == attackerCanOccupy(reachable, pos, nx2, ny2)
    IN /\ isHostileToDefender(pos, nx1, ny1)
       /\ isHostileToDefender(pos, nx2, ny2)
       /\ ((edge1 /\ attack2) \/ (edge2 /\ attack1) \/ (attack1 /\ attack2))

isDefenderCapturable(pos, c, reachable) ==
    \/ DefenderCapturableAlong(pos, c, reachable, [dx |-> -1, dy |-> 0], [dx |-> 1, dy |-> 0])
    \/ DefenderCapturableAlong(pos, c, reachable, [dx |-> 0, dy |-> -1], [dx |-> 0, dy |-> 1])

isKingStaticCapturable(pos, king, reachable) ==
    Cardinality({i \in 1 .. 4 :
        LET nx == king.x + dirs[i].dx
            ny == king.y + dirs[i].dy
        IN /\ isHostileToDefender(pos, nx, ny)
           /\ \/ ~InBoard(pos, nx, ny)
              \/ pos[ny][nx].isRestricted
              \/ (pos[ny][nx].occupant # NoPiece /\ pos[ny][nx].occupant.owner = Attacker)
              \/ attackerCanOccupy(reachable, pos, nx, ny)}) >= 4

\* The flood fill of isKingInFort: the squares it visits, from the squares
\* `seen` visited so far.
RECURSIVE FortVisited(_, _, _, _)
FortVisited(pos, reachable, capturable, seen) ==
    Only({LET new == {n \in UNION {Neighbours(pos, c) : c \in visited} :
                        /\ n \notin visited
                        /\ IF pos[n.y][n.x].occupant # NoPiece
                           THEN pos[n.y][n.x].occupant.owner = Defender /\ n \notin capturable
                           ELSE n \notin reachable}
          IN IF new = {} THEN visited
             ELSE FortVisited(pos, reachable, capturable, visited \cup new)
          : visited \in {seen}})

\* the board size on which isKingInFort looks for a fort
FortBoardSize == 11

isKingInFort(pos) ==
    IF Size(pos) # FortBoardSize THEN FALSE
    ELSE IF isKingCaptured(pos) THEN FALSE
    ELSE \E king \in {CHOOSE c \in AllCoords(pos) :
                        pos[c.y][c.x].occupant # NoPiece /\ pos[c.y][c.x].occupant.type = King} :
         \E reachable \in {getAttackerReachable(pos)} :
         \E capturable \in {{c \in AllCoords(pos) :
                              /\ pos[c.y][c.x].occupant # NoPiece
                              /\ pos[c.y][c.x].occupant.owner = Defender
                              /\ pos[c.y][c.x].occupant.type # King
                              /\ isDefenderCapturable(pos, c, reachable)}} :
            IF isKingStaticCapturable(pos, king, reachable) THEN FALSE
            ELSE \E c \in FortVisited(pos, reachable, capturable, {king}) :
                    /\ pos[c.y][c.x].occupant # NoPiece
                    /\ pos[c.y][c.x].occupant.owner = Defender
                    /\ isEdgeSquare(pos, c.x, c.y)

(***************************************************************************)
(* utils.ts: defendersCanEscape                                            *)
(***************************************************************************)
\* The depth-first search of defendersCanEscape: the squares it visits, from
\* the squares `seen` visited so far.
RECURSIVE EscapeVisited(_, _)
EscapeVisited(pos, seen) ==
    Only({LET new == {n \in UNION {Neighbours(pos, c) : c \in visited} :
                        /\ n \notin visited
                        /\ (pos[n.y][n.x].occupant = NoPiece
                            \/ pos[n.y][n.x].occupant.owner = Defender)}
          IN IF new = {} THEN visited ELSE EscapeVisited(pos, visited \cup new)
          : visited \in {seen}})

defendersCanEscape(pos, edgeSquares) ==
    LET validEdges == {c \in edgeSquares :
                          pos[c.y][c.x].occupant = NoPiece
                          \/ pos[c.y][c.x].occupant.owner # Attacker}
        start == {c \in AllCoords(pos) :
                    pos[c.y][c.x].occupant # NoPiece
                    /\ pos[c.y][c.x].occupant.type \in {Defender, King}}
    IN EscapeVisited(pos, start) \cap validEdges # {}

(***************************************************************************)
(* rules.ts: the status after a move                                       *)
(***************************************************************************)
\* extractEdgeSquares: the board perimeter and the non-throne restricted squares
extractEdgeSquares(pos) == extractEscapePoints(pos)

\* the status with the King's return to the throne taken for an escape
getGameStatusThroneEscape(pos, move, player) ==
    LET piece == IF pos[move.to.y][move.to.x].occupant # NoPiece
                 THEN pos[move.to.y][move.to.x].occupant
                 ELSE pos[move.from.y][move.from.x].occupant
        dest == pos[move.to.y][move.to.x]
    IN IF isKingCaptured(pos) THEN AttackerWin
       ELSE IF piece # NoPiece /\ piece.type = King /\ dest.isRestricted
       THEN DefenderWin
       ELSE IF isKingInFort(pos) THEN DefenderWin
       ELSE IF player = Attacker /\ ~defendersCanEscape(pos, extractEdgeSquares(pos))
       THEN AttackerWin
       ELSE InProgress

\* the status with the encirclement looked for after the other side's move
getGameStatusEncirclingDefender(pos, move, player) ==
    LET piece == IF pos[move.to.y][move.to.x].occupant # NoPiece
                 THEN pos[move.to.y][move.to.x].occupant
                 ELSE pos[move.from.y][move.from.x].occupant
        dest == pos[move.to.y][move.to.x]
    IN IF isKingCaptured(pos) THEN AttackerWin
       ELSE IF piece # NoPiece /\ piece.type = King /\ dest.isRestricted /\ ~dest.isThrone
       THEN DefenderWin
       ELSE IF isKingInFort(pos) THEN DefenderWin
       ELSE IF player = Defender /\ ~defendersCanEscape(pos, extractEdgeSquares(pos))
       THEN AttackerWin
       ELSE InProgress

getGameStatusAfterMove(pos, move, player) ==
    LET piece == IF pos[move.to.y][move.to.x].occupant # NoPiece
                 THEN pos[move.to.y][move.to.x].occupant
                 ELSE pos[move.from.y][move.from.x].occupant
        dest == pos[move.to.y][move.to.x]
    IN IF isKingCaptured(pos) THEN AttackerWin
       ELSE IF piece # NoPiece /\ piece.type = King /\ dest.isRestricted /\ ~dest.isThrone
       THEN DefenderWin
       ELSE IF isKingInFort(pos) THEN DefenderWin
       ELSE IF player = Attacker /\ ~defendersCanEscape(pos, extractEdgeSquares(pos))
       THEN AttackerWin
       ELSE InProgress

(***************************************************************************)
(* validator.ts                                                            *)
(***************************************************************************)
isSameCoord(a, b) == a.x = b.x /\ a.y = b.y

Sign(n) == IF n > 0 THEN 1 ELSE IF n < 0 THEN -1 ELSE 0

\* The loop of isPathClear: from (x, y), stepping by (dx, dy) until `to`.
RECURSIVE PathClearFrom(_, _, _, _, _, _)
PathClearFrom(pos, x, y, dx, dy, to) ==
    IF x = to.x /\ y = to.y THEN TRUE
    ELSE IF pos[y][x].occupant # NoPiece THEN FALSE
    ELSE PathClearFrom(pos, x + dx, y + dy, dx, dy, to)

isPathClear(pos, from, to) ==
    IF from.x # to.x /\ from.y # to.y THEN FALSE
    ELSE LET dx == Sign(to.x - from.x)
             dy == Sign(to.y - from.y)
         IN PathClearFrom(pos, from.x + dx, from.y + dy, dx, dy, to)

\* reasons of a MoveValidationResult / errors of an ApplyMoveResult
Reason(text) == [text |-> text, n |-> -1, at |-> CoordStr(-1, -1)]
NoReason == Reason("")
NoPieceAtSource == Reason("No piece at source")
NotYourPiece == Reason("Not your piece")
DestinationOccupied == Reason("Destination is occupied")
PathBlocked == Reason("Path is blocked")
RestrictedDestination == Reason("Cannot move to restricted square")
\* `Invalid captures. Expected ${n} specific captures.`
InvalidCaptures(n) == [text |-> "Invalid captures. Expected n specific captures.",
                       n |-> n, at |-> CoordStr(-1, -1)]
\* `Invalid capture at ${coordToString(capture)}`
InvalidCaptureAt(c) == [text |-> "Invalid capture at", n |-> -1, at |-> coordToString(c)]
RepeatedPosition == Reason("Move would repeat defender board position")
GameNotInProgress == Reason("Game is not in progress")
InvalidMoveFormat == Reason("Invalid move format")
\* no value is returned: the call ends by throwing a TypeError, raised by
\* reading a property of undefined
TypeErrorThrown == Reason("TypeError")

\* the movement checks with the path looked at before the destination
MovementReasonPathFirst(pos, player, move) ==
    LET fromSquare == pos[move.from.y][move.from.x]
        toSquare == pos[move.to.y][move.to.x]
    IN IF fromSquare.occupant = NoPiece THEN NoPieceAtSource
       ELSE IF fromSquare.occupant.owner # player
               /\ ~(player = Defender /\ fromSquare.occupant.type = King)
       THEN NotYourPiece
       ELSE IF ~isPathClear(pos, move.from, move.to) THEN PathBlocked
       ELSE IF toSquare.occupant # NoPiece THEN DestinationOccupied
       ELSE IF fromSquare.occupant.type # King /\ toSquare.isRestricted
       THEN RestrictedDestination
       ELSE NoReason

\* the movement checks without the restricted-square check
MovementReasonNoRestricted(pos, player, move) ==
    LET fromSquare == pos[move.from.y][move.from.x]
        toSquare == pos[move.to.y][move.to.x]
    IN IF fromSquare.occupant = NoPiece THEN NoPieceAtSource
       ELSE IF fromSquare.occupant.owner # player
               /\ ~(player = Defender /\ fromSquare.occupant.type = King)
       THEN NotYourPiece
       ELSE IF toSquare.occupant # NoPiece THEN DestinationOccupied
       ELSE IF ~isPathClear(pos, move.from, move.to) THEN PathBlocked
       ELSE NoReason

\* The checks of validateMove that precede the capture computation: the
\* reason of the first one that fails, NoReason when all pass.
MovementReason(pos, player, move) ==
    LET fromSquare == pos[move.from.y][move.from.x]
        toSquare == pos[move.to.y][move.to.x]
    IN IF fromSquare.occupant = NoPiece THEN NoPieceAtSource
       ELSE IF fromSquare.occupant.owner # player
               /\ ~(player = Defender /\ fromSquare.occupant.type = King)
       THEN NotYourPiece
       ELSE IF toSquare.occupant # NoPiece THEN DestinationOccupied
       ELSE IF ~isPathClear(pos, move.from, move.to) THEN PathBlocked
       ELSE IF fromSquare.occupant.type # King /\ toSquare.isRestricted
       THEN RestrictedDestination
       ELSE NoReason

Invalid(reason, expectedCaptures) ==
    [isValid |-> FALSE, reason |-> reason,
     expectedCaptures |-> expectedCaptures, status |-> InProgress]

\* the cross-check that only looks for declared captures that are not expected
CapturesReasonDeclaredOnly(move, expectedCaptures) ==
    LET bad == {j \in 1 .. Len(move.captures) :
                   ~\E i \in 1 .. Len(expectedCaptures) :
                       isSameCoord(expectedCaptures[i], move.captures[j])}
    IN IF bad # {}
       THEN InvalidCaptureAt(move.captures[CHOOSE j \in bad : \A k \in bad : j <= k])
       ELSE NoReason

\* The capture cross-check of validateMove: NoReason when the declared list passes.
CapturesReason(move, expectedCaptures) ==
    IF Len(move.captures) > 0
    THEN IF \/ Len(move.captures) # Len(expectedCaptures)
            \/ ~(\A i \in 1 .. Len(expectedCaptures) :
                    \E j \in 1 .. Len(move.captures) :
                        isSameCoord(move.captures[j], expectedCaptures[i]))
         THEN InvalidCaptures(Len(expectedCaptures))
         ELSE LET bad == {j \in 1 .. Len(move.captures) :
                            ~\E i \in 1 .. Len(expectedCaptures) :
                                isSameCoord(expectedCaptures[i], move.captures[j])}
              IN IF bad # {}
                 THEN InvalidCaptureAt(move.captures[CHOOSE j \in bad : \A k \in bad : j <= k])
                 ELSE NoReason
    ELSE NoReason

\* the repetition check against the latest fingerprint only
RepeatsLastPosition(pos, move, history) ==
    \E fp \in {extractDefenderPosition(pos, move)} :
       \E i \in {Len(history)} \ {0} :
          Len(history[i]) = Len(fp) /\ \A r \in 1 .. Len(fp) : history[i][r] = fp[r]

\* the repetition check of validateMove
RepeatsPosition(pos, move, history) ==
    \E fp \in {extractDefenderPosition(pos, move)} :
       \E i \in 1 .. Len(history) :
          Len(history[i]) = Len(fp) /\ \A r \in 1 .. Len(fp) : history[i][r] = fp[r]

\* The reads of validateMove that throw.  position[y] is undefined for a row
\* off the board and reading [x] of it throws; position[y][x] is undefined for
\* a column off the board and reading its occupant throws, which for the
\* destination happens only once the two checks of the source have passed.
validateMoveThrows(pos, player, move) ==
    \/ move.from.y \notin DOMAIN pos
    \/ move.to.y \notin DOMAIN pos
    \/ move.from.x \notin DOMAIN pos[move.from.y]
    \/ /\ move.to.x \notin DOMAIN pos[move.to.y]
       /\ pos[move.from.y][move.from.x].occupant # NoPiece
       /\ ~(pos[move.from.y][move.from.x].occupant.owner # player
            /\ ~(player = Defender /\ pos[move.from.y][move.from.x].occupant.type = King))

validateMove(pos, player, move, edgeSquares, history) ==
    IF validateMoveThrows(pos, player, move) THEN Invalid(TypeErrorThrown, <<>>)
    ELSE
    LET movement == MovementReason(pos, player, move)
    IN IF movement # NoReason THEN Invalid(movement, <<>>)
       ELSE Only({
            LET capReason == CapturesReason(move, expectedCaptures)
            IN IF capReason # NoReason THEN Invalid(capReason, expectedCaptures)
               ELSE IF player = Defender /\ RepeatsPosition(pos, move, history)
               THEN Invalid(RepeatedPosition, expectedCaptures)
               ELSE Only({[isValid |-> TRUE, reason |-> NoReason,
                           expectedCaptures |-> expectedCaptures,
                           status |-> getGameStatusAfterMove(previewPosition, move, player)]
                          : previewPosition \in {applyMoveToPosition(pos, move, TRUE)}})
            : expectedCaptures \in {getAvailableCaptures(pos, move, player, edgeSquares)}})

(***************************************************************************)
(* moveGenerator.ts                                                        *)
(***************************************************************************)
\* up, down, left, right
generatorDirections == <<[dx |-> 0, dy |-> -1], [dx |-> 0, dy |-> 1],
                         [dx |-> -1, dy |-> 0], [dx |-> 1, dy |-> 0]>>

\* the while loop of generatePossibleMoves in one direction, from `distance` on
RECURSIVE PossibleMovesAlong(_, _, _, _, _, _)
PossibleMovesAlong(pos, from, player, edgeSquares, d, distance) ==
    LET to == Coord(from.x + d.dx * distance, from.y + d.dy * distance)
    IN IF to.x < 0 \/ to.x >= Size(pos) \/ to.y < 0 \/ to.y >= Size(pos) THEN <<>>
       ELSE IF pos[to.y][to.x].occupant # NoPiece THEN <<>>
       ELSE IF pos[from.y][from.x].occupant.type # King /\ pos[to.y][to.x].isRestricted
       THEN PossibleMovesAlong(pos, from, player, edgeSquares, d, distance + 1)
       ELSE IF ~isPathClear(pos, from, to) THEN <<>>
       ELSE <<[to |-> to,
               captures |-> getAvailableCaptures(
                                pos, [from |-> from, to |-> to, captures |-> <<>>],
                                player, edgeSquares)]>>
            \o PossibleMovesAlong(pos, from, player, edgeSquares, d, distance + 1)

generatePossibleMoves(pos, from, player, edgeSquares) ==
    LET fromSquare == pos[from.y][from.x]
    IN IF fromSquare.occupant = NoPiece THEN <<>>
       ELSE IF fromSquare.occupant.owner # player
               /\ ~(player = Defender /\ fromSquare.occupant.type = King)
       THEN <<>>
       ELSE PossibleMovesAlong(pos, from, player, edgeSquares, generatorDirections[1], 1)
            \o PossibleMovesAlong(pos, from, player, edgeSquares, generatorDirections[2], 1)
            \o PossibleMovesAlong(pos, from, player, edgeSquares, generatorDirections[3], 1)
            \o PossibleMovesAlong(pos, from, player, edgeSquares, generatorDirections[4], 1)

(***************************************************************************)
(* HnefataflEngine.ts.  An engine state is the GameState, the private      *)
(* escapePoints and the value the last call returned.                      *)
(***************************************************************************)
NoResult == [op |-> "none", ok |-> TRUE, reason |-> NoReason,
             expectedCaptures |-> <<>>, status |-> InProgress]

\* the GameState of an engine state
GameStateOf(st) ==
    [position |-> st.position, currentPlayer |-> st.currentPlayer,
     captured |-> st.captured, moveHistory |-> st.moveHistory,
     defenderPositions |-> st.defenderPositions, status |-> st.status]

\* The GameState object a caller keeps a reference to: none, or the object
\* getState returned.  `then` is the GameState read through the reference when
\* it was obtained and `now` the GameState read through it at present;
\* `current` tells whether the object is still the engine's this.gameState.
NoHeld == <<>>

\* a reset that gives the first move to the Defender side
resetDefenderFirst(layout) ==
    Only({[position |-> gameSetup.position,
           currentPlayer |-> Defender,
           captured |-> [attacker |-> 0, defender |-> 0],
           moveHistory |-> <<>>,
           defenderPositions |-> <<extractDefenderPosition(gameSetup.position, NoMove)>>,
           status |-> InProgress,
           escapePoints |-> gameSetup.escapePoints,
           result |-> NoResult,
           held |-> NoHeld]
          : gameSetup \in {initializeGame(layout)}})

\* reset(boardLayout), for a layout initializeGame accepts
reset(layout) ==
    Only({[position |-> gameSetup.position,
           currentPlayer |-> Attacker,
           captured |-> [attacker |-> 0, defender |-> 0],
           moveHistory |-> <<>>,
           defenderPositions |-> <<extractDefenderPosition(gameSetup.position, NoMove)>>,
           status |-> InProgress,
           escapePoints |-> gameSetup.escapePoints,
           result |-> NoResult,
           held |-> NoHeld]
          : gameSetup \in {initializeGame(layout)}})

\* a validateMove that does not look at the status of the game
engineValidateMoveAnyStatus(st, ms) ==
    IF parseMove(ms) = NoMove
    THEN [isValid |-> FALSE, reason |-> InvalidMoveFormat,
          expectedCaptures |-> <<>>, status |-> st.status]
    ELSE Only({validateMove(st.position, st.currentPlayer, move,
                            st.escapePoints, st.defenderPositions)
               : move \in {parseMove(ms)}})

\* HnefataflEngine.validateMove: the MoveValidationResult it returns
engineValidateMove(st, ms) ==
    IF st.status # InProgress
    THEN [isValid |-> FALSE, reason |-> GameNotInProgress,
          expectedCaptures |-> <<>>, status |-> st.status]
    ELSE IF parseMove(ms) = NoMove
    THEN [isValid |-> FALSE, reason |-> InvalidMoveFormat,
          expectedCaptures |-> <<>>, status |-> st.status]
    ELSE Only({validateMove(st.position, st.currentPlayer, move,
                            st.escapePoints, st.defenderPositions)
               : move \in {parseMove(ms)}})

ValidateResult(v) ==
    [op |-> "validateMove", ok |-> v.isValid, reason |-> v.reason,
     expectedCaptures |-> v.expectedCaptures, status |-> v.status]

\* a validateMove that records the fingerprint of the position it accepts
afterValidateMoveRecording(st, ms) ==
    Only({[st EXCEPT !.result = ValidateResult(v),
                     !.defenderPositions =
                         IF v.isValid
                         THEN Append(@, extractDefenderPosition(st.position, parseMove(ms)))
                         ELSE @]
          : v \in {engineValidateMove(st, ms)}})

\* HnefataflEngine.validateMove: the engine state after the call; it assigns
\* no field of the engine and returns the MoveValidationResult
afterValidateMove(st, ms) ==
    Only({[st EXCEPT !.result = ValidateResult(v)] : v \in {engineValidateMove(st, ms)}})

ApplyResult(ok, error) ==
    [op |-> "applyMove", ok |-> ok, reason |-> error,
     expectedCaptures |-> <<>>, status |-> InProgress]

\* the capture counters after the loop over expectedCaptures
RECURSIVE CountCaptures(_, _, _, _)
CountCaptures(pos, cap, expectedCaptures, i) ==
    IF i > Len(expectedCaptures) THEN cap
    ELSE LET occ == pos[expectedCaptures[i].y][expectedCaptures[i].x].occupant
             next == IF occ # NoPiece /\ occ.type = Attacker
                     THEN [cap EXCEPT !.attacker = @ + 1]
                     ELSE IF occ # NoPiece /\ occ.type \in {Defender, King}
                     THEN [cap EXCEPT !.defender = @ + 1]
                     ELSE cap
         IN CountCaptures(pos, next, expectedCaptures, i + 1)

\* The object a caller holds, after a successful applyMove.  The capture loop
\* increments this.gameState.captured in place, so an object that is still the
\* engine's reads the new tally; then the engine takes a new GameState object.
heldAfterApplyMove(h, newCaptured) ==
    IF h # NoHeld /\ h[1].current
    THEN <<[current |-> FALSE,
            then |-> h[1].then,
            now |-> [h[1].now EXCEPT !.captured = newCaptured]]>>
    ELSE h

\* HnefataflEngine.getState: returns this.gameState itself, which the caller keeps
getState(st) ==
    [st EXCEPT !.held = <<[current |-> TRUE,
                           then |-> GameStateOf(st),
                           now |-> GameStateOf(st)]>>,
               !.result = [op |-> "getState", ok |-> TRUE, reason |-> NoReason,
                           expectedCaptures |-> <<>>, status |-> st.status]]

\* the fingerprint history that a Defender move does not extend
newDefenderPositionsCaptureOnly(history, player, expectedCaptures, newPosition) ==
    IF Len(expectedCaptures) > 0
    THEN <<extractDefenderPosition(newPosition, NoMove)>>
    ELSE history

\* the fingerprint history that is never cleared
newDefenderPositionsKept(history, player, expectedCaptures, newPosition) ==
    IF Len(expectedCaptures) > 0 \/ player = Defender
    THEN Append(history, extractDefenderPosition(newPosition, NoMove))
    ELSE history

\* the fingerprint history after a move: cleared by a capture, extended after a
\* capture or a Defender move
newDefenderPositions(history, player, expectedCaptures, newPosition) ==
    LET kept == IF Len(expectedCaptures) > 0 THEN <<>> ELSE history
    IN IF Len(expectedCaptures) > 0 \/ player = Defender
       THEN Append(kept, extractDefenderPosition(newPosition, NoMove))
       ELSE kept

\* the move string recorded in moveHistory
moveStrWithCaptures(ms, expectedCaptures) ==
    IF Len(expectedCaptures) > 0 /\ ~ms.paren
    THEN [ms EXCEPT !.caps = [i \in 1 .. Len(expectedCaptures) |->
                                 coordToString(expectedCaptures[i])],
                    !.paren = TRUE]
    ELSE ms

\* HnefataflEngine.applyMove: the engine state after the call
applyMove(st, ms) ==
    IF st.status # InProgress
    THEN [st EXCEPT !.result = ApplyResult(FALSE, GameNotInProgress)]
    ELSE IF parseMove(ms) = NoMove
    THEN [st EXCEPT !.result = ApplyResult(FALSE, InvalidMoveFormat)]
    ELSE Only({Only({
         IF ~validation.isValid
         THEN [st EXCEPT !.result = ApplyResult(FALSE, validation.reason)]
         ELSE LET expectedCaptures == validation.expectedCaptures
                  moveWithCaptures == [from |-> move.from, to |-> move.to,
                                       captures |-> expectedCaptures]
                  newCaptured == CountCaptures(st.position, st.captured,
                                               expectedCaptures, 1)
                  nextPlayer == Opponent(st.currentPlayer)
              IN Only({Only({
                 [position |-> newPosition,
                  currentPlayer |-> IF newStatus = InProgress THEN nextPlayer
                                    ELSE st.currentPlayer,
                  captured |-> newCaptured,
                  moveHistory |-> Append(st.moveHistory,
                                         moveStrWithCaptures(ms, expectedCaptures)),
                  defenderPositions |->
                      newDefenderPositions(st.defenderPositions, st.currentPlayer,
                                           expectedCaptures, newPosition),
                  status |-> newStatus,
                  escapePoints |-> st.escapePoints,
                  result |-> ApplyResult(TRUE, NoReason),
                  held |-> heldAfterApplyMove(st.held, newCaptured)]
                 : newStatus \in {getGameStatusAfterMove(newPosition, move,
                                                         st.currentPlayer)}})
                 : newPosition \in {applyMoveToPosition(st.position, moveWithCaptures,
                                                        TRUE)}})
         : validation \in {validateMove(st.position, st.currentPlayer, move,
                                        st.escapePoints, st.defenderPositions)}})
         : move \in {parseMove(ms)}})

\* an applyMoveSequence that goes on after a move that fails
RECURSIVE applyMoveSequenceSkipping(_, _, _)
applyMoveSequenceSkipping(st, parts, i) ==
    IF i > Len(parts) THEN st
    ELSE Only({applyMoveSequenceSkipping(next, parts, i + 1)
               : next \in {applyMove(st, parts[i])}})

\* HnefataflEngine.applyMoveSequence over the moves parts[i..]
RECURSIVE applyMoveSequence(_, _, _)
applyMoveSequence(st, parts, i) ==
    IF i > Len(parts) THEN st
    ELSE Only({IF ~next.result.ok THEN next ELSE applyMoveSequence(next, parts, i + 1)
               : next \in {applyMove(st, parts[i])}})

\* HnefataflEngine.applyMoveSequence: the engine state after the call on the
\* moves that split(",") and trim() give, of which there is at least one
afterApplyMoveSequence(st, parts) ==
    Only({[out EXCEPT !.result.op = "applyMoveSequence"]
          : out \in {applyMoveSequence(st, parts, 1)}})

(***************************************************************************)
(* The games explored.  A scenario is a board layout given to reset and a  *)
(* sequence of opening moves given to applyMoveSequence; play goes on from *)
(* there with every move string of the input set.                          *)
(***************************************************************************)
\* the move string for a move from (x1, y1) to (x2, y2) that declares no capture
M(x1, y1, x2, y2) ==
    MoveStr(coordToString(Coord(x1, y1)), coordToString(Coord(x2, y2)), <<>>)

\* captures by sandwich, against a piece and against a corner
ScenarioSandwich ==
    [layout |->
      <<<<"R", "D", " ", " ", "R">>,
      <<" ", "D", " ", "A", " ">>,
      <<"A", " ", " ", " ", " ">>,
      <<" ", " ", "K", " ", " ">>,
      <<"R", " ", " ", " ", "R">>>>,
     prefix |-> <<M(0, 2, 0, 1), M(2, 3, 3, 3)>>]

\* the King on the throne, three Attackers around it and a fourth near
ScenarioKingOnThrone ==
    [layout |->
      <<<<"R", " ", " ", " ", "R">>,
      <<" ", " ", "A", " ", " ">>,
      <<" ", "A", "K", " ", "A">>,
      <<"D", " ", " ", " ", " ">>,
      <<"R", " ", "A", " ", "R">>>>,
     prefix |-> <<M(4, 2, 3, 2), M(0, 3, 1, 3)>>]

\* the King beside the empty throne
ScenarioKingByThrone ==
    [layout |->
      <<<<"R", " ", "A", " ", "R">>,
      <<" ", "A", " ", " ", "A">>,
      <<" ", " ", "K", " ", " ">>,
      <<" ", " ", " ", " ", " ">>,
      <<"R", " ", " ", "A", "R">>>>,
     prefix |-> <<M(3, 4, 3, 3), M(2, 2, 2, 1)>>]

\* two Defenders on the left edge, one move from enclosure
ScenarioLeftEdge ==
    [layout |->
      <<<<"R", " ", " ", " ", "R">>,
      <<"D", " ", "A", " ", " ">>,
      <<"D", " ", " ", " ", "K">>,
      <<"A", " ", " ", " ", " ">>,
      <<"R", "A", " ", " ", "R">>>>,
     prefix |-> <<M(2, 1, 1, 1), M(4, 2, 4, 1)>>]

\* a Defender on the left edge, Attackers on the left and right edges, and the
\* King below its throne with an Attacker beside it
ScenarioAcrossBoard ==
    [layout |->
      <<<<"R", " ", " ", " ", "R">>,
      <<"D", " ", " ", " ", " ">>,
      <<" ", " ", "K", " ", "A">>,
      <<"A", " ", " ", "A", " ">>,
      <<"R", " ", " ", " ", "R">>>>,
     prefix |-> <<M(4, 2, 4, 3), M(2, 2, 2, 3)>>]

\* the King and a Defender one move from encirclement
ScenarioEncircle ==
    [layout |->
      <<<<"R", " ", "D", "A", "R">>,
      <<" ", "A", " ", "A", " ">>,
      <<" ", "A", "K", "A", " ">>,
      <<" ", " ", " ", " ", " ">>,
      <<"R", " ", "A", " ", "R">>>>,
     prefix |-> <<M(2, 4, 2, 3), M(2, 0, 2, 1)>>]

\* the King off its throne, beside a corner, after a capture
ScenarioEscape ==
    [layout |->
      <<<<"R", " ", " ", " ", "R">>,
      <<" ", " ", " ", " ", " ">>,
      <<"K", " ", " ", " ", "A">>,
      <<" ", " ", " ", "D", " ">>,
      <<"R", " ", "A", " ", "R">>>>,
     prefix |-> <<M(4, 2, 4, 3), M(0, 2, 0, 1), M(2, 4, 2, 3)>>]

\* the 7x7 left-edge enclosure of the validator tests, and the King gone to
\* the top edge between two Attackers
ScenarioLeftEdge7 ==
    [layout |->
      <<<<"R", " ", "A", " ", "A", " ", "R">>,
      <<" ", " ", " ", " ", " ", " ", "A">>,
      <<"A", " ", " ", " ", " ", " ", " ">>,
      <<"D", " ", "A", "K", " ", " ", " ">>,
      <<"D", " ", " ", " ", " ", " ", " ">>,
      <<"A", " ", " ", " ", " ", " ", " ">>,
      <<"R", "A", " ", " ", " ", " ", "R">>>>,
     prefix |-> <<M(2, 3, 1, 3), M(3, 3, 3, 0)>>]

\* a Defender on the left edge between an Attacker and an empty square, an
\* Attacker on its inward side, and an Attacker that can reach the empty square
\* or step between the King and a Defender
ScenarioBothRules ==
    [layout |->
      <<<<"R", " ", " ", " ", "R">>,
      <<"A", " ", " ", " ", " ">>,
      <<"D", "A", "K", " ", " ">>,
      <<" ", " ", " ", "A", " ">>,
      <<"R", " ", " ", "D", "R">>>>,
     prefix |-> <<M(3, 3, 2, 3), M(2, 2, 3, 2)>>]

\* the full-size board: the King gone down from its throne to the rank above
\* the bottom edge, Defenders on the bottom edge and behind the King, and one
\* Attacker, on the bottom edge beside a Defender
ScenarioFort ==
    [layout |->
      <<<<"R", " ", " ", " ", " ", " ", " ", " ", " ", " ", "R">>,
      <<" ", " ", " ", " ", " ", " ", " ", " ", " ", " ", " ">>,
      <<" ", " ", " ", " ", " ", " ", " ", " ", " ", " ", " ">>,
      <<" ", " ", " ", " ", " ", " ", " ", " ", " ", " ", " ">>,
      <<" ", " ", " ", " ", " ", " ", " ", " ", " ", " ", " ">>,
      <<" ", " ", " ", " ", " ", "K", " ", " ", " ", " ", " ">>,
      <<" ", " ", " ", " ", " ", " ", " ", " ", " ", " ", " ">>,
      <<" ", " ", " ", " ", "D", " ", " ", " ", " ", " ", " ">>,
      <<" ", " ", " ", " ", " ", " ", "A", " ", " ", " ", " ">>,
      <<" ", " ", " ", " ", " ", " ", " ", " ", " ", " ", " ">>,
      <<"R", " ", " ", " ", "D", " ", " ", "D", " ", " ", "R">>>>,
     prefix |-> <<M(6, 8, 6, 9), M(5, 5, 5, 9), M(6, 9, 6, 10)>>]

\* the layout of the board test, without a King
ScenarioNoKing ==
    [layout |->
      <<<<"A", " ", "D", " ", "A">>,
      <<" ", " ", " ", " ", " ">>,
      <<" ", " ", " ", " ", " ">>,
      <<" ", " ", " ", " ", " ">>,
      <<" ", " ", " ", " ", " ">>>>,
     prefix |-> <<>>]

\* a layout with two Kings
ScenarioTwoKings ==
    [layout |->
      <<<<"R", " ", "A", " ", "R">>,
      <<" ", " ", "K", " ", " ">>,
      <<"A", " ", "K", " ", "A">>,
      <<" ", " ", " ", " ", " ">>,
      <<"R", " ", "A", " ", "R">>>>,
     prefix |-> <<>>]

Scenarios == {ScenarioSandwich,
              ScenarioKingOnThrone,
              ScenarioKingByThrone,
              ScenarioLeftEdge,
              ScenarioAcrossBoard,
              ScenarioEncircle,
              ScenarioEscape,
              ScenarioLeftEdge7,
              ScenarioBothRules,
              ScenarioFort,
              ScenarioNoKing,
              ScenarioTwoKings}

StartOf(sc) == Only({applyMoveSequence(st, sc.prefix, 1) : st \in {reset(sc.layout)}})

\* the engine state as one record
State ==
    [position |-> position, currentPlayer |-> currentPlayer, captured |-> captured,
     moveHistory |-> moveHistory, defenderPositions |-> defenderPositions,
     status |-> status, escapePoints |-> escapePoints, result |-> result,
     held |-> held]

Becomes(st) ==
    /\ position' = st.position
    /\ currentPlayer' = st.currentPlayer
    /\ captured' = st.captured
    /\ moveHistory' = st.moveHistory
    /\ defenderPositions' = st.defenderPositions
    /\ status' = st.status
    /\ escapePoints' = st.escapePoints
    /\ result' = st.result
    /\ held' = st.held

(***************************************************************************)
(* The inputs: move strings whose coordinates lie on the board.  The       *)
(* source is any square holding a piece, or one empty square; the          *)
(* destination is any square.                                              *)
(***************************************************************************)
CoordStrs(pos) == {coordToString(c) : c \in AllCoords(pos)}

SeqsUpTo(S, n) == UNION {[1 .. k -> S] : k \in 0 .. n}

Occupied(pos) == {c \in AllCoords(pos) : pos[c.y][c.x].occupant # NoPiece}

SourceStrs(pos) ==
    LET empty == AllCoords(pos) \ Occupied(pos)
    IN {coordToString(c) : c \in Occupied(pos)}
       \cup (IF empty = {} THEN {}
             ELSE {coordToString(CHOOSE c \in empty : \A d \in empty : CoordBefore(c, d))})

\* the squares holding a piece of the side that is not to move
OpposingSquares(st) ==
    {d \in Occupied(st.position) :
        st.position[d.y][d.x].occupant.owner # st.currentPlayer}

\* The squares a caller names as captured by a move: the squares the move does
\* capture and one opposing piece it does not.
CaptureStrs(st, move) ==
    LET taken == Range(getAvailableCaptures(st.position, move, st.currentPlayer,
                                            st.escapePoints))
        others == OpposingSquares(st) \ taken
    IN {coordToString(c) : c \in taken}
       \cup (IF others = {} THEN {}
             ELSE {coordToString(CHOOSE c \in others : \A d \in others : CoordBefore(c, d))})

\* Declared capture lists: every list up to MaxDeclared for a move that reaches
\* the capture check, the empty list and one other for a move rejected before.
DeclaredInputs(st, from, to) ==
    IF MovementReason(st.position, st.currentPlayer,
                      parseMove(MoveStr(from, to, <<>>))) = NoReason
    THEN Only({SeqsUpTo(CaptureStrs(st, move), MaxDeclared)
               : move \in {parseMove(MoveStr(from, to, <<>>))}})
    ELSE {<<>>, <<to>>}

\* the destinations tried from a source: its rank, its file and its diagonal neighbours
DestStrs(pos, from) ==
    LET f == coordFromString(from)
    IN {coordToString(c) : c \in {d \in AllCoords(pos) :
            \/ d.x = f.x
            \/ d.y = f.y
            \/ ((d.x - f.x) \in {-1, 1} /\ (d.y - f.y) \in {-1, 1})}}

MoveInputs(st) ==
    {BadFormat} \cup
    UNION {{MoveStr(from, to, caps) : caps \in DeclaredInputs(st, from, to)} :
              <<from, to>> \in {<<f, t>> \in SourceStrs(st.position) \X CoordStrs(st.position) :
                                  t \in DestStrs(st.position, f)}}

\* the moves, with no declared capture, that pass the movement checks
LegalMoves(st) ==
    {m \in {parseMove(MoveStr(f, t, <<>>)) :
                 <<f, t>> \in {<<a, b>> \in SourceStrs(st.position) \X CoordStrs(st.position) :
                                  b \in DestStrs(st.position, a)}} :
        MovementReason(st.position, st.currentPlayer, m) = NoReason}

(***************************************************************************)
(* The specification                                                       *)
(***************************************************************************)
Init == \E sc \in Scenarios : ~initializeGameThrows(sc.layout) /\
            \E st \in {StartOf(sc)} :
               /\ position = st.position
               /\ currentPlayer = st.currentPlayer
               /\ captured = st.captured
               /\ moveHistory = st.moveHistory
               /\ defenderPositions = st.defenderPositions
               /\ status = st.status
               /\ escapePoints = st.escapePoints
               /\ result = st.result
               /\ held = st.held

\* result.op tells whether the last call was validateMove: one call in a row so far
ValidateMove ==
    /\ (IF result.op = "validateMove" THEN 1 ELSE 0) < MaxValidations
    /\ \E st \in {State} : \E ms \in MoveInputs(st) :
          \E next \in {afterValidateMove(st, ms)} : Becomes(next)

ApplyMove ==
    /\ Len(moveHistory) < MaxHistory
    /\ \E st \in {State} : \E ms \in MoveInputs(st) :
          \E next \in {applyMove(st, ms)} : Becomes(next)

Next == ValidateMove \/ ApplyMove

Spec == Init /\ [][Next]_vars

(***************************************************************************)
(* A caller that submits any move string and move list.  The move strings  *)
(* are those that pass the movement checks, a malformed one, and those     *)
(* that name a square beside the board; a finished game takes every call.  *)
(***************************************************************************)
\* the move strings, declaring no capture, that pass the movement checks
SequenceParts(st) ==
    {BadFormat} \cup
    {MoveStr(coordToString(m.from), coordToString(m.to), <<>>) : m \in LegalMoves(st)}

\* the move lists of at most n moves, each move drawn in the state the moves
\* before it lead to
RECURSIVE SequenceInputs(_, _)
SequenceInputs(st, n) ==
    IF n = 0 THEN {<<>>}
    ELSE {<<>>} \cup
         UNION {{<<ms>> \o rest : rest \in SequenceInputs(applyMove(st, ms), n - 1)}
                : ms \in SequenceParts(st)}

\* the squares the notation can name that lie beside the board: one file to
\* the right of it or one rank below it
OffBoardStrs(pos) ==
    {coordToString(Coord(x, y)) : <<x, y>> \in
        {<<a, b>> \in (0 .. Size(pos)) \X (0 .. Size(pos)) :
            /\ a = Size(pos) \/ b = Size(pos)
            /\ a < BoardRanks /\ b < BoardRanks}}

\* move strings with the source or the destination beside the board
OffBoardInputs(st) ==
    {MoveStr(from, to, <<>>) : <<from, to>> \in
        (SourceStrs(st.position) \X OffBoardStrs(st.position))
        \cup (OffBoardStrs(st.position) \X {coordToString(Coord(0, 0))})}

CallInputs(st) == SequenceParts(st) \cup OffBoardInputs(st)

\* The history is bounded while the game goes on; a finished game grows none.
\* A validateMove call and a refused call leave the GameState as it was:
\* result tells whether the last call was one, one call in a row so far.
CallsBounded ==
    /\ Len(moveHistory) < MaxHistory \/ status # InProgress
    /\ (IF result.op = "validateMove" \/ ~result.ok THEN 1 ELSE 0) < MaxRefused

ValidateMoveCall ==
    /\ CallsBounded
    /\ \E st \in {State} : \E ms \in CallInputs(st) :
          \E next \in {afterValidateMove(st, ms)} : Becomes(next)

ApplyMoveCall ==
    /\ CallsBounded
    /\ \E st \in {State} : \E ms \in CallInputs(st) :
          \E next \in {applyMove(st, ms)} : Becomes(next)

ApplyMoveSequence ==
    /\ CallsBounded
    /\ \E st \in {State} : \E parts \in SequenceInputs(st, MaxParts) \ {<<>>} :
          \E next \in {afterApplyMoveSequence(st, parts)} : Becomes(next)

NextCalls == ValidateMoveCall \/ ApplyMoveCall \/ ApplyMoveSequence

SpecCalls == Init /\ [][NextCalls]_vars

\* A caller that keeps the GameState it is given: getState and applyMove.
GetState ==
    \E st \in {State} : \E next \in {getState(st)} : Becomes(next)

NextRetain == GetState \/ ApplyMove

SpecRetain == Init /\ [][NextRetain]_vars

(***************************************************************************)
(* Properties.  A property of validateMove or of the capture resolver is   *)
(* stated for every move a caller may submit in the current state.         *)
(***************************************************************************)
\* the position with the mover on move.to and its origin empty, nothing captured
AfterMove(pos, move) == applyMoveToPosition(pos, move, FALSE)

HoldsKing(pos, c) == pos[c.y][c.x].occupant # NoPiece /\ pos[c.y][c.x].occupant.type = King

\* mid is sandwiched between move.to and a square hostile to its piece
Sandwiched(after, move, player, mid) ==
    \E d \in Range(directions) :
        /\ mid = Coord(move.to.x + d.dx, move.to.y + d.dy)
        /\ mid \in AllCoords(after)
        /\ after[mid.y][mid.x].occupant # NoPiece
        /\ after[mid.y][mid.x].occupant.type # King
        /\ after[mid.y][mid.x].occupant.owner = Opponent(player)
        /\ \E beyond \in AllCoords(after) :
              /\ beyond = Coord(mid.x + d.dx, mid.y + d.dy)
              /\ isSquareHostileTo(after[beyond.y][beyond.x], Opponent(player),
                                   after[beyond.y][beyond.x].occupant)

\* C1: the squares getAvailableCaptures reports as sandwich captures are exactly
\* the squares next to move.to that hold a non-King piece of the other side and
\* whose next square in the same direction is on the board and hostile to that
\* piece's side, judged on the position after the move.
C1_SandwichCaptures ==
    \A m \in LegalMoves(State) : \E after \in {AfterMove(position, m)} :
        \E standard \in {Range(getStandardCaptures(position, m, currentPlayer))} :
            /\ standard \subseteq
                  Range(getAvailableCaptures(position, m, currentPlayer, escapePoints))
            /\ \A mid \in AllCoords(position) :
                  (mid \in standard /\ ~HoldsKing(after, mid))
                      <=> Sandwiched(after, m, currentPlayer, mid)

\* a validateMove call has returned a capture list holding a sandwiched piece
C1_Witness ==
    /\ result.op = "validateMove"
    /\ result.ok
    /\ \E m \in LegalMoves(State) :
          /\ result.expectedCaptures =
                getAvailableCaptures(position, m, currentPlayer, escapePoints)
          /\ \E i \in 1 .. Len(result.expectedCaptures) :
                Sandwiched(AfterMove(position, m), m, currentPlayer,
                           result.expectedCaptures[i])

KingSquares(pos) == {c \in AllCoords(pos) : HoldsKing(pos, c)}

Adjacent(a, b) ==
    \E d \in Range(directions) : b = Coord(a.x + d.dx, a.y + d.dy)

\* every neighbour of k is on the board and is the throne, restricted or held
\* by an Attacker
KingSurrounded(after, k) ==
    \A d \in Range(directions) :
        \E n \in AllCoords(after) :
            /\ n = Coord(k.x + d.dx, k.y + d.dy)
            /\ \/ after[n.y][n.x].isThrone
               \/ after[n.y][n.x].isRestricted
               \/ (after[n.y][n.x].occupant # NoPiece
                   /\ after[n.y][n.x].occupant.owner = Attacker)

\* C2: an Attacker move captures the King exactly when it ends next to the King
\* and, after the move, each of the King's four neighbours is on the board and
\* is the throne, a restricted square or an Attacker; so a King with a
\* neighbour off the board is never captured.
C2_KingCapture ==
    currentPlayer = Attacker =>
        \A m \in LegalMoves(State) : \E after \in {AfterMove(position, m)} :
            \A k \in KingSquares(after) :
                k \in Range(getAvailableCaptures(position, m, currentPlayer, escapePoints))
                    <=> (Adjacent(m.to, k) /\ KingSurrounded(after, k))

\* a validateMove call has accepted an Attacker move that captures the King
C2_Witness ==
    /\ result.op = "validateMove"
    /\ result.ok
    /\ currentPlayer = Attacker
    /\ \E k \in KingSquares(position) : k \in Range(result.expectedCaptures)

\* the four edges of the board; square i of an edge and its inward neighbour
BoardEdges(pos) == {[byRow |-> b, k |-> k] : b \in BOOLEAN, k \in {0, Size(pos) - 1}}

EdgeSquare(e, i) == IF e.byRow THEN Coord(i, e.k) ELSE Coord(e.k, i)

EdgeInward(pos, e, i) ==
    LET in == IF e.k = 0 THEN 1 ELSE Size(pos) - 2
    IN IF e.byRow THEN Coord(i, in) ELSE Coord(in, i)

OpponentPieceAt(after, player, c) ==
    /\ after[c.y][c.x].occupant # NoPiece
    /\ after[c.y][c.x].occupant.owner = Opponent(player)
    /\ after[c.y][c.x].occupant.type # King

\* the maximal runs a..b of opposing non-King pieces along edge e
EdgeRuns(after, player, e) ==
    LET last == Size(after) - 1
    IN {r \in (0 .. last) \X (0 .. last) :
          /\ r[1] <= r[2]
          /\ \A i \in r[1] .. r[2] : OpponentPieceAt(after, player, EdgeSquare(e, i))
          /\ (r[1] = 0 \/ ~OpponentPieceAt(after, player, EdgeSquare(e, r[1] - 1)))
          /\ (r[2] = last \/ ~OpponentPieceAt(after, player, EdgeSquare(e, r[2] + 1)))}

\* the inward neighbours of a run and the squares beyond its two ends
AroundRun(pos, e, r) ==
    {EdgeInward(pos, e, i) : i \in r[1] .. r[2]}
    \cup {EdgeSquare(e, i) : i \in {r[1] - 1, r[2] + 1} \cap (0 .. Size(pos) - 1)}

AllHostile(p, owner, squares) ==
    \A c \in squares : isSquareHostileTo(p[c.y][c.x], owner, p[c.y][c.x].occupant)

\* the squares of the runs enclosed after the move and not before it
NewlyEnclosed(pos, after, player) ==
    UNION {{EdgeSquare(e[1], i) : i \in e[2][1] .. e[2][2]} :
              e \in {x \in {<<ed, r>> : ed \in BoardEdges(pos),
                                        r \in (0 .. Size(pos) - 1) \X (0 .. Size(pos) - 1)} :
                        /\ x[2] \in EdgeRuns(after, player, x[1])
                        /\ AllHostile(after, Opponent(player), AroundRun(pos, x[1], x[2]))
                        /\ ~AllHostile(pos, Opponent(player), AroundRun(pos, x[1], x[2]))}}

\* C3: the squares getAvailableCaptures reports as edge-enclosure captures are
\* exactly the squares of the maximal runs of opposing non-King pieces along
\* one of the four board edges whose inward neighbours and end squares are all
\* hostile to the run's owner after the move and were not all hostile before.
C3_EdgeEnclosure ==
    \A m \in LegalMoves(State) : \E after \in {AfterMove(position, m)} :
        Range(getEdgeEnclosureCaptures(position, m, currentPlayer, escapePoints))
            = NewlyEnclosed(position, after, currentPlayer)

\* a validateMove call has returned the squares of an enclosed run of two
C3_Witness ==
    /\ result.op = "validateMove"
    /\ result.ok
    /\ \E m \in LegalMoves(State) :
          /\ result.expectedCaptures =
                getAvailableCaptures(position, m, currentPlayer, escapePoints)
          /\ Range(result.expectedCaptures)
                = NewlyEnclosed(position, AfterMove(position, m), currentPlayer)
          /\ Cardinality(Range(result.expectedCaptures)) = 2

\* the move strings of the input set that pass the movement checks
LegalInputs(st) ==
    {ms \in MoveInputs(st) \ {BadFormat} :
        MovementReason(st.position, st.currentPlayer, parseMove(ms)) = NoReason}

IsInvalidCaptures(reason) ==
    reason.text \in {InvalidCaptures(0).text, InvalidCaptureAt(Coord(0, 0)).text}

\* C4: of the moves that pass the movement checks, one that declares captures
\* is accepted only if the declared squares are, as a set, the expected
\* captures; a declaration that differs is rejected as invalid captures and the
\* whole list of expected captures is returned; one that declares no capture is
\* never rejected for its captures, whatever is expected (an Attacker move is
\* accepted, a Defender move is accepted unless it repeats a position).
C4_DeclaredCaptures ==
    \A ms \in LegalInputs(State) : \E move \in {parseMove(ms)} :
        \E v \in {validateMove(position, currentPlayer, move, escapePoints,
                                defenderPositions)} :
        \E expected \in {getAvailableCaptures(position, move, currentPlayer,
                                               escapePoints)} :
            /\ (Len(move.captures) > 0 /\ v.isValid)
                  => Range(move.captures) = Range(expected)
            /\ (Len(move.captures) > 0 /\ Range(move.captures) # Range(expected))
                  => (~v.isValid /\ IsInvalidCaptures(v.reason)
                      /\ v.expectedCaptures = expected)
            /\ Len(move.captures) = 0
                  => /\ ~IsInvalidCaptures(v.reason)
                     /\ v.isValid \/ v.reason = RepeatedPosition
                     /\ currentPlayer = Attacker => v.isValid

\* a validateMove call has rejected a declaration and returned two expected captures
C4_Witness ==
    /\ result.op = "validateMove"
    /\ ~result.ok
    /\ IsInvalidCaptures(result.reason)
    /\ Len(result.expectedCaptures) = 2

\* C5: for every move validateMove accepts, the status it returns is the status
\* of the position after the move with every expected capture removed; it is
\* AttackerWin when the King's square is among the expected captures; and it is
\* the status of the state applyMove produces for the same move.
C5_PreviewStatus ==
    status = InProgress =>
        \A ms \in LegalInputs(State) : \E move \in {parseMove(ms)} :
            \E v \in {validateMove(position, currentPlayer, move, escapePoints,
                                    defenderPositions)} :
                v.isValid =>
                    /\ \E after \in {applyMoveToPosition(position,
                                         [move EXCEPT !.captures = v.expectedCaptures],
                                         TRUE)} :
                          v.status = getGameStatusAfterMove(after, move, currentPlayer)
                    /\ (\E k \in KingSquares(position) : k \in Range(v.expectedCaptures))
                          => v.status = AttackerWin
                    /\ v.status = applyMove(State, ms).status

\* C6: a valid King move that ends on a restricted square other than the throne
\* gives DefenderWin, in validateMove's result and in the state applyMove
\* produces; a King move that ends on the throne gives DefenderWin only when
\* the fort detector reports a fort.
C6_KingEscape ==
    status = InProgress =>
        \A ms \in LegalInputs(State) : \E move \in {parseMove(ms)} :
            HoldsKing(position, move.from) =>
                \E v \in {validateMove(position, currentPlayer, move, escapePoints,
                                        defenderPositions)} :
                \E next \in {applyMove(State, ms)} :
                    v.isValid =>
                        /\ (position[move.to.y][move.to.x].isRestricted
                            /\ ~position[move.to.y][move.to.x].isThrone)
                              => (v.status = DefenderWin /\ next.status = DefenderWin)
                        /\ position[move.to.y][move.to.x].isThrone
                              => /\ v.status = DefenderWin
                                    => isKingInFort(applyMoveToPosition(position, move, TRUE))
                                 /\ next.status = DefenderWin
                                    => isKingInFort(next.position)

\* a validateMove call has accepted a King move onto a corner
C6_Witness ==
    /\ result.op = "validateMove"
    /\ result.ok
    /\ result.status = DefenderWin
    /\ currentPlayer = Defender
    /\ \E k \in KingSquares(position) : \E c \in AllCoords(position) :
          /\ position[c.y][c.x].isRestricted /\ ~position[c.y][c.x].isThrone
          /\ MovementReason(position, currentPlayer,
                            [from |-> k, to |-> c, captures |-> <<>>]) = NoReason

\* the squares reached from the squares `reach` in at most n more orthogonal
\* steps over squares that are empty or hold a Defender
RECURSIVE ReachFrom(_, _, _)
ReachFrom(after, reach, n) ==
    IF n = 0 THEN reach
    ELSE Only({IF more \subseteq reach THEN reach
               ELSE ReachFrom(after, reach \cup more, n - 1)
               : more \in {{c \in AllCoords(after) :
                               /\ \/ after[c.y][c.x].occupant = NoPiece
                                  \/ after[c.y][c.x].occupant.owner = Defender
                               /\ \E b \in reach :
                                     \/ (b.x = c.x /\ (b.y - c.y) \in {-1, 1})
                                     \/ (b.y = c.y /\ (b.x - c.x) \in {-1, 1})}}})

\* the squares that hold a Defender or the King, or that one of them reaches in
\* at most n orthogonal steps over squares that are empty or hold a Defender
DefenderReach(after, n) ==
    ReachFrom(after,
              {c \in AllCoords(after) :
                  after[c.y][c.x].occupant # NoPiece
                  /\ after[c.y][c.x].occupant.type \in {Defender, King}},
              n)

\* some Defender or the King reaches an edge or escape square that holds no Attacker
CanReachEdge(after) ==
    \E c \in DefenderReach(after, Size(after) * Size(after)) :
        /\ \/ c.x \in {0, Size(after) - 1}
           \/ c.y \in {0, Size(after) - 1}
           \/ (after[c.y][c.x].isRestricted /\ ~after[c.y][c.x].isThrone)
        /\ ~(after[c.y][c.x].occupant # NoPiece
             /\ after[c.y][c.x].occupant.owner = Attacker)

\* C7: after a valid Attacker move that leaves the King on the board and not in
\* a fort, the status is AttackerWin exactly when no Defender and no King can
\* reach an edge or escape square free of Attackers; after a valid Defender
\* move the status is never AttackerWin.
C7_Encirclement ==
    status = InProgress =>
        \A ms \in LegalInputs(State) : \E next \in {applyMove(State, ms)} :
            next.result.ok =>
                IF currentPlayer = Attacker
                THEN (KingSquares(next.position) # {} /\ ~isKingInFort(next.position))
                        => (next.status = AttackerWin <=> ~CanReachEdge(next.position))
                ELSE next.status # AttackerWin

\* applyMove has applied an Attacker move that encircles the Defenders
C7_Witness ==
    /\ result.op = "applyMove"
    /\ result.ok
    /\ status = AttackerWin
    /\ KingSquares(position) # {}
    /\ ~CanReachEdge(position)

\* the squares strictly between two squares of one rank or file
Between(pos, from, to) ==
    {c \in AllCoords(pos) :
        /\ c # from /\ c # to
        /\ \/ (c.x = from.x /\ c.x = to.x
                /\ ((from.y < c.y /\ c.y < to.y) \/ (to.y < c.y /\ c.y < from.y)))
           \/ (c.y = from.y /\ c.y = to.y
                /\ ((from.x < c.x /\ c.x < to.x) \/ (to.x < c.x /\ c.x < from.x)))}

\* the defender fingerprint of the position after the move, expected captures removed
FingerprintAfter(pos, move, expected) ==
    extractDefenderPosition(
        applyMoveToPosition(pos, [move EXCEPT !.captures = expected], TRUE), NoMove)

\* The number, 1 to 7, of the first check of the fixed order that the move
\* fails, 0 when it fails none.
FirstFailing(pos, player, move, expected, history) ==
    LET piece == pos[move.from.y][move.from.x].occupant
    IN IF piece = NoPiece THEN 1
       ELSE IF piece.owner # player THEN 2
       ELSE IF pos[move.to.y][move.to.x].occupant # NoPiece THEN 3
       ELSE IF \/ (move.from.x # move.to.x /\ move.from.y # move.to.y)
               \/ \E c \in Between(pos, move.from, move.to) : pos[c.y][c.x].occupant # NoPiece
       THEN 4
       ELSE IF piece.type # King /\ pos[move.to.y][move.to.x].isRestricted THEN 5
       ELSE IF /\ Len(move.captures) > 0
               /\ \/ Range(move.captures) # Range(expected)
                  \/ Len(move.captures) # Len(expected)
       THEN 6
       ELSE IF player = Defender /\ FingerprintAfter(pos, move, expected) \in Range(history)
       THEN 7
       ELSE 0

\* the reasons validateMove gives for each check
ReasonTexts(n) ==
    CASE n = 0 -> {NoReason.text}
      [] n = 1 -> {NoPieceAtSource.text}
      [] n = 2 -> {NotYourPiece.text}
      [] n = 3 -> {DestinationOccupied.text}
      [] n = 4 -> {PathBlocked.text}
      [] n = 5 -> {RestrictedDestination.text}
      [] n = 6 -> {InvalidCaptures(0).text, InvalidCaptureAt(Coord(0, 0)).text}
      [] n = 7 -> {RepeatedPosition.text}

\* C8: validateMove gives the reason of the first check that fails, in the
\* order: source empty, piece not the mover's, destination occupied, not along
\* one rank or file or a square between occupied, a non-King on a restricted
\* square, wrong declared captures, a Defender repetition; and it returns valid
\* exactly when no check fails.
C8_FirstFailingCheck ==
    \A ms \in MoveInputs(State) \ {BadFormat} : \E move \in {parseMove(ms)} :
        \E v \in {validateMove(position, currentPlayer, move, escapePoints,
                                defenderPositions)} :
        \E n \in {FirstFailing(position, currentPlayer, move,
                                getAvailableCaptures(position, move, currentPlayer,
                                                     escapePoints),
                                defenderPositions)} :
            /\ v.reason.text \in ReasonTexts(n)
            /\ v.isValid <=> n = 0

\* a validateMove call has rejected a move for a non-King stopping on a
\* restricted square
C8_Witness ==
    /\ result.op = "validateMove"
    /\ ~result.ok
    /\ result.reason = RestrictedDestination

\* C9: a Defender move that passes the movement and capture checks is rejected as
\* a repeated position exactly when the defender fingerprint of the position
\* after the move is in the fingerprint history; an Attacker move is never
\* rejected as a repeated position.
C9_Repetition ==
    \A ms \in LegalInputs(State) : \E move \in {parseMove(ms)} :
        \E v \in {validateMove(position, currentPlayer, move, escapePoints,
                                defenderPositions)} :
        \E expected \in {getAvailableCaptures(position, move, currentPlayer,
                                               escapePoints)} :
            IF currentPlayer = Attacker THEN v.reason # RepeatedPosition
            ELSE (Len(move.captures) = 0
                  \/ (Range(move.captures) = Range(expected)
                      /\ Len(move.captures) = Len(expected)))
                    => ((~v.isValid /\ v.reason = RepeatedPosition)
                           <=> \E i \in 1 .. Len(defenderPositions) :
                                  defenderPositions[i]
                                      = FingerprintAfter(position, move, expected))

\* a validateMove call has rejected a Defender move as a repeated position
C9_Witness ==
    /\ result.op = "validateMove"
    /\ ~result.ok
    /\ result.reason = RepeatedPosition
    /\ currentPlayer = Defender
    /\ Len(defenderPositions) >= 2

PieceCount(pos) == Cardinality(Occupied(pos))

\* C10: when applyMove applies a move that removes at least one piece, the
\* fingerprint history afterwards holds only the fingerprint of the resulting
\* position; when it applies a move that removes none, every fingerprint
\* recorded before is still in the history, in the same place.
C10_HistoryAfterCapture ==
    [][moveHistory' # moveHistory =>
          IF PieceCount(position') < PieceCount(position)
          THEN defenderPositions' = <<extractDefenderPosition(position', NoMove)>>
          ELSE /\ Len(defenderPositions') >= Len(defenderPositions)
               /\ SubSeq(defenderPositions', 1, Len(defenderPositions)) = defenderPositions]_vars

\* applyMove has applied a move that captures two Defenders
C10_Witness ==
    /\ result.op = "applyMove"
    /\ result.ok
    /\ Len(moveHistory) > 0
    /\ moveHistory[Len(moveHistory)].paren
    /\ Len(defenderPositions) = 1
    /\ captured.defender = 2

\* no coordinate stands at two places of the list
NoDuplicates(s) == \A i, j \in 1 .. Len(s) : s[i] = s[j] => i = j

\* C11: the list getAvailableCaptures returns for a move that passes the
\* movement checks names each captured square once, also when a piece is taken
\* by the sandwich rule and by the edge-enclosure rule in the same move.
C11_CapturesOnce ==
    \A m \in LegalMoves(State) :
        \E caps \in {getAvailableCaptures(position, m, currentPlayer, escapePoints)} :
            NoDuplicates(caps)

\* a validateMove call has returned a capture list that names a square twice
C11_Witness ==
    /\ result.op = "validateMove"
    /\ result.ok
    /\ ~NoDuplicates(result.expectedCaptures)

\* C12: every square getAvailableCaptures names for a move that passes the
\* movement checks holds, before the move, a piece of the side that is not
\* moving, and is neither the origin nor the destination of the move: the piece
\* that moved stands on its destination once the captures are removed.
C12_OnlyOpponentsCaptured ==
    \A m \in LegalMoves(State) :
        \E caps \in {getAvailableCaptures(position, m, currentPlayer, escapePoints)} :
            /\ \A c \in Range(caps) :
                  /\ c \in AllCoords(position)
                  /\ position[c.y][c.x].occupant # NoPiece
                  /\ position[c.y][c.x].occupant.owner = Opponent(currentPlayer)
                  /\ c # m.to /\ c # m.from
            /\ \E after \in {applyMoveToPosition(position, [m EXCEPT !.captures = caps], TRUE)} :
                  after[m.to.y][m.to.x].occupant = position[m.from.y][m.from.x].occupant

\* the square c holds a piece not owned by owner, or is restricted
EnemyOrRestricted(pos, owner, c) ==
    /\ c \in AllCoords(pos)
    /\ \/ (pos[c.y][c.x].occupant # NoPiece /\ pos[c.y][c.x].occupant.owner # owner)
       \/ (pos[c.y][c.x].occupant = NoPiece /\ pos[c.y][c.x].isRestricted)

\* applyMove has just moved a piece between two enemy pieces, or between an
\* enemy piece and a restricted square, and the piece stands there
C12_Witness ==
    /\ result.op = "applyMove"
    /\ result.ok
    /\ Len(moveHistory) > MaxHistory - 1
    /\ \E t \in {coordFromString(moveHistory[Len(moveHistory)].to)} :
          /\ position[t.y][t.x].occupant # NoPiece
          /\ \E d \in {directions[2], directions[4]} :
                \E a \in {Coord(t.x + d.dx, t.y + d.dy)} :
                \E b \in {Coord(t.x - d.dx, t.y - d.dy)} :
                   /\ EnemyOrRestricted(position, position[t.y][t.x].occupant.owner, a)
                   /\ EnemyOrRestricted(position, position[t.y][t.x].occupant.owner, b)
                   /\ position[a.y][a.x].occupant # NoPiece

\* the squares and occupants a layout can produce
SquareKinds ==
    [occupant : {NoPiece}, isThrone : BOOLEAN, isRestricted : BOOLEAN]

Occupants == {NoPiece, AttackerPiece, DefenderPiece, KingPiece}

\* the three cases in which a square is hostile to a side
HostileCase(square, side, occupant) ==
    LET kingOnThrone == square.isThrone /\ occupant # NoPiece /\ occupant.type = King
    IN \/ (square.isRestricted /\ ~kingOnThrone)
       \/ (kingOnThrone /\ side = Attacker)
       \/ (~square.isRestricted /\ occupant # NoPiece /\ occupant.owner # side)

\* C13: isSquareHostileTo is true exactly when the square is restricted and is
\* not the throne holding the King, or is the throne holding the King and the
\* side is Attacker, or is unrestricted and holds a piece of the other side;
\* checked for every kind of square and occupant, and for every square of the
\* reached position as each move that passes the movement checks leaves it.
C13_Hostility ==
    /\ \A square \in SquareKinds : \A side \in Player : \A occupant \in Occupants :
          /\ isSquareHostileTo(square, side, occupant) = HostileCase(square, side, occupant)
          /\ (~square.isRestricted /\ occupant = NoPiece)
                => ~isSquareHostileTo(square, side, occupant)
    /\ \A m \in LegalMoves(State) : \A c \in AllCoords(position) : \A side \in Player :
          isHostileTo(position, m, side, c.x, c.y)
             = HostileCase(position[c.y][c.x], side, getOccupantAfter(position, m, c.x, c.y))

\* validateMove has judged a position with the King on its throne, an empty
\* restricted square, a piece on an unrestricted square and an empty
\* unrestricted square
C13_Witness ==
    /\ result.op = "validateMove"
    /\ result.ok
    /\ Len(result.expectedCaptures) > 0
    /\ \E k \in KingSquares(position) : position[k.y][k.x].isThrone
    /\ \E c \in AllCoords(position) :
          position[c.y][c.x].isRestricted /\ position[c.y][c.x].occupant = NoPiece
    /\ \E c \in AllCoords(position) :
          ~position[c.y][c.x].isRestricted /\ position[c.y][c.x].occupant # NoPiece
    /\ \E c \in AllCoords(position) :
          ~position[c.y][c.x].isRestricted /\ position[c.y][c.x].occupant = NoPiece

\* the squares of the board's outer ranks and files
OnBoardEdge(pos, c) ==
    c.x = 0 \/ c.y = 0 \/ c.x = Size(pos) - 1 \/ c.y = Size(pos) - 1

\* the position applyMove stores for a move that passes the movement checks
PositionAfter(pos, move, player, edgeSquares) ==
    Only({applyMoveToPosition(pos, [move EXCEPT !.captures = caps], TRUE)
          : caps \in {getAvailableCaptures(pos, move, player, edgeSquares)}})

\* C14: for every move that passes the movement checks, the fort detector
\* reports a fort on the resulting position only if the King stands on a square
\* of the board edge, and the resulting status is DefenderWin only if the King
\* stands on the board edge or on a restricted square that is not the throne.
C14_FortOnEdge ==
    \A m \in LegalMoves(State) :
        \E after \in {PositionAfter(position, m, currentPlayer, escapePoints)} :
            /\ isKingInFort(after)
                  => \E k \in KingSquares(after) : OnBoardEdge(after, k)
            /\ getGameStatusAfterMove(after, m, currentPlayer) = DefenderWin
                  => \E k \in KingSquares(after) :
                        \/ OnBoardEdge(after, k)
                        \/ (after[k.y][k.x].isRestricted /\ ~after[k.y][k.x].isThrone)

\* validateMove has reported DefenderWin for a move on the full-size board that
\* leaves the King off the board edge
C14_Witness ==
    /\ result.op = "validateMove"
    /\ result.ok
    /\ result.status = DefenderWin
    /\ \E k \in KingSquares(position) : ~OnBoardEdge(position, k)
    /\ \E c \in AllCoords(position) :
          position[c.y][c.x].occupant # NoPiece /\ position[c.y][c.x].occupant.owner = Attacker
    /\ Len(result.expectedCaptures) = 0

\* the squares that hold an Attacker
AttackerSquares(pos) ==
    {c \in AllCoords(pos) :
        pos[c.y][c.x].occupant # NoPiece /\ pos[c.y][c.x].occupant.owner = Attacker}

\* C15: for every move that passes the movement checks and leaves no Attacker
\* on the board, the fort detector reports no fort on the resulting position.
C15_NoFortWithoutAttackers ==
    \A m \in LegalMoves(State) :
        \E after \in {PositionAfter(position, m, currentPlayer, escapePoints)} :
            AttackerSquares(after) = {} => ~isKingInFort(after)

\* validateMove has accepted a move on the full-size board that captures the
\* last Attacker
C15_Witness ==
    /\ result.op = "validateMove"
    /\ result.ok
    /\ Size(position) = FortBoardSize
    /\ AttackerSquares(position) # {}
    /\ AttackerSquares(position) \subseteq Range(result.expectedCaptures)

C17_RetainedStateUnmodified ==
    held # NoHeld => held[1].now = held[1].then

\* a successful applyMove that captured has followed a getState
C17_Witness ==
    /\ held # NoHeld
    /\ ~held[1].current
    /\ result.op = "applyMove"
    /\ result.ok
    /\ captured # held[1].then.captured

\* the move applyMove recorded last: its origin, destination and captured squares
LastFrom == coordFromString(moveHistory[Len(moveHistory)].from)

LastTo == coordFromString(moveHistory[Len(moveHistory)].to)

LastCaptured == {coordFromString(c) : c \in Range(moveHistory[Len(moveHistory)].caps)}

\* C18: a successful applyMove empties the origin square, puts the piece that
\* stood there, owner and kind unchanged, on the destination square, empties
\* the captured squares, leaves the occupant of every other square as it was and
\* leaves the throne and restricted flags of every square as they were.
C18_OnlyMoveAndCaptures ==
    [][moveHistory' # moveHistory =>
          /\ Size(position') = Size(position)
          /\ LastFrom' # LastTo'
          /\ \A c \in AllCoords(position) :
                /\ position'[c.y][c.x].isThrone = position[c.y][c.x].isThrone
                /\ position'[c.y][c.x].isRestricted = position[c.y][c.x].isRestricted
                /\ position'[c.y][c.x].occupant =
                      IF c = LastTo' THEN position[LastFrom'.y][LastFrom'.x].occupant
                      ELSE IF c = LastFrom' \/ c \in LastCaptured' THEN NoPiece
                      ELSE position[c.y][c.x].occupant
          /\ position[LastFrom'.y][LastFrom'.x].occupant # NoPiece]_vars

\* applyMove has applied a move that captures on two squares: the destination
\* holds the mover, the origin and the captured squares are empty and another
\* piece of the captured side still stands
C18_Witness ==
    /\ result.op = "applyMove"
    /\ result.ok
    /\ Len(moveHistory) = MaxHistory
    /\ Cardinality(LastCaptured) = 2
    /\ position[LastTo.y][LastTo.x].occupant # NoPiece
    /\ position[LastFrom.y][LastFrom.x].occupant = NoPiece
    /\ \A c \in LastCaptured : position[c.y][c.x].occupant = NoPiece
    /\ \E c \in AllCoords(position) :
          /\ position[c.y][c.x].occupant # NoPiece
          /\ position[c.y][c.x].occupant.owner # position[LastTo.y][LastTo.x].occupant.owner

\* the number of King glyphs in a layout
KingGlyphs(layout) ==
    Cardinality({<<y, x>> \in (1 .. Len(layout)) \X (1 .. Len(layout)) :
                    layout[y][x] = "K"})

\* C19: the position holds at most one King, every King is owned by the Defender
\* side, there is exactly one King while the status is InProgress or
\* DefenderWin, and no state is the one reset would build from a layout that
\* does not have exactly one King glyph.
C19_OneKing ==
    /\ Cardinality(KingSquares(position)) <= 1
    /\ \A k \in KingSquares(position) : position[k.y][k.x].occupant.owner = Defender
    /\ status \in {InProgress, DefenderWin} => Cardinality(KingSquares(position)) = 1
    /\ \A sc \in Scenarios :
          KingGlyphs(sc.layout) # 1
             => \E st \in {reset(sc.layout)} : st.position # position

\* applyMove has applied the move that captures the King
C19_Witness ==
    /\ result.op = "applyMove"
    /\ result.ok
    /\ status = AttackerWin
    /\ KingSquares(position) = {}
    /\ captured.defender > 0

\* while the game is in progress the Attacker is to move exactly when the
\* number of moves applied since reset is even
TurnMatchesHistory(st) ==
    st.status = InProgress => (st.currentPlayer = Attacker <=> Len(st.moveHistory) % 2 = 0)

\* C20: in every state, before and after every step, the player to move while
\* the game is in progress is the Attacker exactly when an even number of
\* moves has been applied since reset; an applyMove that succeeds and leaves
\* the game in progress passes the turn, and one that fails leaves the player
\* to move and the move history as they were.
C20_TurnOrder ==
    [][/\ TurnMatchesHistory(State)
       /\ TurnMatchesHistory(State')
       /\ (moveHistory' # moveHistory /\ status' = InProgress)
             => currentPlayer' # currentPlayer
       /\ (result'.op = "applyMove" /\ ~result'.ok)
             => (currentPlayer' = currentPlayer /\ moveHistory' = moveHistory)
       /\ (result'.op = "applyMove" /\ result'.ok)
             => Len(moveHistory') = Len(moveHistory) + 1]_vars

\* applyMove has refused a move and the Attacker is still to move
C20_Witness ==
    /\ result.op = "applyMove"
    /\ ~result.ok
    /\ status = InProgress
    /\ currentPlayer = Attacker
    /\ Len(moveHistory) = MaxHistory - 1

\* the engine states that applying the moves parts[i..] one by one goes through
RECURSIVE StatesAlong(_, _, _)
StatesAlong(st, parts, i) ==
    IF i > Len(parts) THEN <<>>
    ELSE Only({<<next>> \o StatesAlong(next, parts, i + 1)
               : next \in {applyMove(st, parts[i])}})

\* the states the games explored start in
Starts == {StartOf(sc) : sc \in {s \in Scenarios : ~initializeGameThrows(s.layout)}}

\* C21: applyMoveSequence applies the moves of the list in order up to the
\* first one that applyMove refuses: it returns that refusal, the GameState is
\* the one the moves before it led to, with one more history entry per move
\* applied, and neither the refused move nor a later one changes it; when no
\* move is refused every move is applied and the call succeeds.
C21_SequenceStopsAtFailure ==
    CallsBounded =>
    \A parts \in SequenceInputs(State, MaxParts) \ {<<>>} :
        \E out \in {afterApplyMoveSequence(State, parts)} :
        \E along \in {<<State>> \o StatesAlong(State, parts, 1)} :
        \E failing \in {{k \in 1 .. Len(parts) : ~along[k + 1].result.ok}} :
            IF failing = {}
            THEN /\ out.result.ok
                 /\ GameStateOf(out) = GameStateOf(along[Len(parts) + 1])
                 /\ Len(out.moveHistory) = Len(moveHistory) + Len(parts)
            ELSE \E k \in {CHOOSE f \in failing : \A g \in failing : f <= g} :
                 /\ ~out.result.ok
                 /\ out.result.reason = along[k + 1].result.reason
                 /\ out.result.reason # NoReason
                 /\ GameStateOf(out) = GameStateOf(along[k])
                 /\ Len(out.moveHistory) = Len(moveHistory) + k - 1

\* applyMoveSequence has applied the first move of a list and refused the second
C21_Witness ==
    /\ result.op = "applyMoveSequence"
    /\ ~result.ok
    /\ \E s \in Starts :
          /\ s.escapePoints = escapePoints
          /\ Len(moveHistory) = Len(s.moveHistory) + 1
          /\ SubSeq(moveHistory, 1, Len(s.moveHistory)) = s.moveHistory

\* C22: no validateMove or applyMove call ends by throwing, whatever squares
\* the move string names and whatever the size of the board: the call returns
\* a value, and a refusal carries a reason.
C22_NeverThrows ==
    /\ result.reason # TypeErrorThrown
    /\ (result.op \in {"validateMove", "applyMove"} /\ ~result.ok)
          => result.reason # NoReason

\* applyMove was given a move that names a square beside a board smaller than
\* the notation, and the call ended by throwing
C22_Witness ==
    /\ result.op = "applyMove"
    /\ result.reason = TypeErrorThrown
    /\ Size(position) < BoardRanks

\* the squares that hold a piece before and none after, the origin of the move aside
RemovedBy(before, after, move) ==
    {c \in Occupied(before) \ {move.from} : after[c.y][c.x].occupant = NoPiece}

\* C23: an applyMove that succeeds removes from the board exactly the pieces
\* on the squares the move string lists as captures; given a move string that
\* lists none, it removes no piece.
C23_RemovesListedCaptures ==
    \A ms \in LegalInputs(State) : \E next \in {applyMove(State, ms)} :
        next.result.ok =>
            RemovedBy(position, next.position, parseMove(ms))
                = Range(parseMove(ms).captures)

\* the piece type on a square, "none" for an empty square
TypeAt(pos, c) == pos[c.y][c.x].occupant.type

\* the optional moves of a fingerprint: none, or a move that passes the movement checks
FingerprintMoves(st) == LegalMoves(st) \cup {NoMove}

\* the position the fingerprint is taken of: the move applied, nothing captured
Fingerprinted(pos, m) == IF m = NoMove THEN pos ELSE AfterMove(pos, m)

\* C24 as stated: the fingerprint has one string per row, in which a square
\* holding a Defender and a square holding the King, after the optional move
\* is virtually applied, both read D and every other square reads blank.
C24_KingMarkedAsDefender ==
    \A m \in FingerprintMoves(State) :
        \E fp \in {extractDefenderPosition(position, m)} :
        \E after \in {Fingerprinted(position, m)} :
            /\ Len(fp) = Size(position)
            /\ \A c \in AllCoords(position) :
                  fp[c.y + 1][c.x + 1] =
                      IF TypeAt(after, c) \in {Defender, King} THEN "D" ELSE " "

\* C24, amended: the fingerprint has one string per row, in which a square
\* holding a Defender reads D, the square holding the King reads K and every
\* other square reads blank, after the optional move is virtually applied; it
\* is a function of the position and the move, and the fingerprint with a
\* move is the fingerprint of the position with the move applied.
C24_FingerprintCharacters ==
    \A m \in FingerprintMoves(State) :
        \E fp \in {extractDefenderPosition(position, m)} :
        \E after \in {Fingerprinted(position, m)} :
            /\ Len(fp) = Size(position)
            /\ \A r \in 1 .. Len(fp) : Len(fp[r]) = Size(position)
            /\ \A c \in AllCoords(position) :
                  fp[c.y + 1][c.x + 1] =
                      CASE TypeAt(after, c) = Defender -> "D"
                        [] TypeAt(after, c) = King -> "K"
                        [] OTHER -> " "
            /\ fp = extractDefenderPosition(after, NoMove)

\* validateMove has accepted a move of the King, whose fingerprint it took with
\* the move virtually applied, in a position whose fingerprint marks the King
C24_Witness ==
    /\ result.op = "validateMove"
    /\ result.ok
    /\ result.status = DefenderWin
    /\ currentPlayer = Defender
    /\ \E c \in AllCoords(position) :
          /\ TypeAt(position, c) = King
          /\ defenderPositions[Len(defenderPositions)][c.y + 1][c.x + 1] = "K"

\* the squares a piece on `from` could go to: its rank and its file
LineFrom(pos, from) == {c \in AllCoords(pos) \ {from} : c.x = from.x \/ c.y = from.y}

\* the source squares tried: every square holding a piece and one empty square
Sources(pos) == {coordFromString(s) : s \in SourceStrs(pos)}

\* C25: for every source square, generatePossibleMoves for the player to move
\* returns exactly the destinations of the moves from that square, declaring
\* no capture, that the session's validateMove accepts, and pairs each with the
\* expectedCaptures that validateMove reports for it.
C25_GeneratorMatchesValidator ==
    \A from \in Sources(position) :
        \E gen \in {generatePossibleMoves(position, from, currentPlayer, escapePoints)} :
            /\ {gen[i].to : i \in 1 .. Len(gen)}
                  = {to \in LineFrom(position, from) :
                        engineValidateMove(State, MoveStr(coordToString(from),
                                                          coordToString(to), <<>>)).isValid}
            /\ \A i \in 1 .. Len(gen) :
                  Range(gen[i].captures)
                      = Range(engineValidateMove(
                                  State, MoveStr(coordToString(from),
                                                 coordToString(gen[i].to), <<>>)).expectedCaptures)

\* validateMove has refused, as a repetition, a King move that
\* generatePossibleMoves lists for the King's square
C25_Witness ==
    /\ result.op = "validateMove"
    /\ ~result.ok
    /\ result.reason = RepeatedPosition
    /\ status = InProgress
    /\ \E k \in KingSquares(position) :
          \E gen \in {generatePossibleMoves(position, k, currentPlayer, escapePoints)} :
             \E i \in 1 .. Len(gen) :
                RepeatsPosition(position, [from |-> k, to |-> gen[i].to, captures |-> <<>>],
                                defenderPositions)

\* C26: once the game is won, every validateMove, applyMove and
\* applyMoveSequence call is refused with "Game is not in progress" and leaves
\* the GameState as it was.
C26_FinishedGameRefusesCalls ==
    [][status # InProgress =>
          /\ ~result'.ok
          /\ result'.reason = GameNotInProgress
          /\ GameStateOf(State') = GameStateOf(State)]_vars

\* applyMoveSequence was called on a won game and refused
C26_Witness ==
    /\ status # InProgress
    /\ result.op = "applyMoveSequence"
    /\ ~result.ok
    /\ result.reason = GameNotInProgress
    /\ Len(moveHistory) = MaxHistory

\* the squares of a position holding a piece of one of the types
SquaresOf(pos, types) == {c \in Occupied(pos) : TypeAt(pos, c) \in types}

\* the number of pieces of the types that a layout places
PlacedBy(layout, types) ==
    Cardinality(SquaresOf(transformLayoutToPosition(layout).position, types))

\* The layouts the game can have started from: those of the games explored
\* whose opening moves begin the move history, on a board of the same size.
StartLayouts ==
    {sc.layout : sc \in {s \in Scenarios :
        /\ ~initializeGameThrows(s.layout)
        /\ Len(s.layout) = Size(position)
        /\ Len(s.prefix) <= Len(moveHistory)
        /\ \A i \in 1 .. Len(s.prefix) :
              /\ moveHistory[i].from = s.prefix[i].from
              /\ moveHistory[i].to = s.prefix[i].to}}

\* C27: the capture tally matches the board: captured.attacker is the number
\* of Attackers the starting position had less the number now on the board,
\* and captured.defender the same for the Defenders and the King together.
C27_TallyMatchesBoard ==
    /\ StartLayouts # {}
    /\ \A layout \in StartLayouts :
          /\ captured.attacker
                = PlacedBy(layout, {Attacker}) - Cardinality(SquaresOf(position, {Attacker}))
          /\ captured.defender
                = PlacedBy(layout, {Defender, King})
                    - Cardinality(SquaresOf(position, {Defender, King}))

\* applyMove has applied a capture of one Defender and counted it twice
C27_Witness ==
    /\ result.op = "applyMove"
    /\ result.ok
    /\ captured.defender = 2
    /\ \E layout \in StartLayouts :
          PlacedBy(layout, {Defender, King})
              - Cardinality(SquaresOf(position, {Defender, King})) = 1

\* the restricted squares of a position, the throne among them
RestrictedSquares(pos) == {c \in AllCoords(pos) : pos[c.y][c.x].isRestricted}

\* C28: in every state reached by applyMove no Attacker and no Defender stands
\* on a restricted square, throne included: a restricted square is empty or
\* holds the King.  (No layout places an Attacker or a Defender on one.)
C28_OnlyKingOnRestricted ==
    \A c \in RestrictedSquares(position) : TypeAt(position, c) \in {"none", King}

\* applyMove has refused to put an Attacker or a Defender on a restricted
\* square, in a position where the King has left the throne
C28_Witness ==
    /\ result.op = "applyMove"
    /\ result.reason = RestrictedDestination
    /\ \E c \in RestrictedSquares(position) :
          position[c.y][c.x].isThrone /\ TypeAt(position, c) = "none"

\* the fingerprint history of an engine state is well formed
HistoryWellFormed(st) ==
    /\ Len(st.defenderPositions) > 0
    /\ NoDuplicates(st.defenderPositions)
    /\ st.defenderPositions[Len(st.defenderPositions)]
          = extractDefenderPosition(st.position, NoMove)

\* C29: in every engine state, and in the state every further applyMove leads
\* to, the fingerprint history is not empty, no fingerprint is in it twice,
\* and its last entry is the fingerprint of the current position.  (A
\* validateMove call leaves the GameState of the state it was made in.)
C29_FingerprintHistory ==
    /\ HistoryWellFormed(State)
    /\ result.op # "validateMove" =>
          \A m \in LegalMoves(State) :
             HistoryWellFormed(applyMove(State, MoveStr(coordToString(m.from),
                                                        coordToString(m.to), <<>>)))

\* applyMove has applied an Attacker move that captures a Defender, after a
\* Defender move, and the history holds the fingerprint of the new position only
C29_Witness ==
    /\ result.op = "applyMove"
    /\ result.ok
    /\ Len(moveHistory) = MaxHistory
    /\ moveHistory[Len(moveHistory)].paren
    /\ currentPlayer = Defender
    /\ captured.defender >= 1
    /\ defenderPositions = <<extractDefenderPosition(position, NoMove)>>
    /\ \A s \in Starts : s.moveHistory # moveHistory

\* the moves of the player to move, declaring no capture, that validateMove accepts
AcceptedMoves(st) ==
    {m \in LegalMoves(st) :
        validateMove(st.position, st.currentPlayer, m, st.escapePoints,
                     st.defenderPositions).isValid}

\* C30: in every state whose status is in progress the player to move has a
\* move that validateMove accepts.
C30_PlayerCanMove ==
    status = InProgress => AcceptedMoves(State) # {}

\* applyMove has applied an Attacker move that leaves the game in progress and
\* the Defender side with pieces that can step somewhere but with no move
\* that validateMove accepts
C30_Witness ==
    /\ result.op = "applyMove"
    /\ result.ok
    /\ status = InProgress
    /\ currentPlayer = Defender
    /\ LegalMoves(State) # {}
    /\ AcceptedMoves(State) = {}

====
